---- MODULE Spec2Model ----
(***************************************************************************)
(* Model of the Worker of @temporalio/worker 0.6.0: the lifecycle state    *)
(* machine, the two poll loops, and the workflow and activity pipelines.   *)
(*                                                                         *)
(* One TLA+ step is one turn of the Node event loop: a public method call, *)
(* a bridge callback, a timer, or the return of a sandbox call, together   *)
(* with everything RxJS delivers synchronously from it.  A processing step *)
(* that never leaves the microtask queue (it awaits nothing but resolved   *)
(* promises) is taken before any other event (see Urgent).                 *)
(***************************************************************************)
EXTENDS Integers, Sequences, FiniteSets, TLC

\* ------------------------------------------------------------------ bounds
MaxWfTasks == 2      \* workflow poll results the bridge delivers
MaxActTasks == 2     \* activity poll results the bridge delivers
MaxSeq == 3          \* task ids (timers, activities) of one workflow
MaxCommands == 1     \* commands buffered when an activation job is handled
MaxNameLen == 2      \* characters of an activity file's name

\* WorkerOptions as configured: one task of each kind at a time.
maxConcurrentWorkflowTaskExecutions == 1
maxConcurrentActivityTaskExecutions == 1

Runs == {"r1", "r2"}
Tokens == {"t1", "t2"}

\* What the bridge has to deliver in one run of the worker: workflow
\* activations only, activity tasks only, or one of each.
Budgets ==
  { [wf |-> MaxWfTasks, act |-> 0], [wf |-> 0, act |-> MaxActTasks],
    [wf |-> 1, act |-> 1] }

\* Job lists of the activations the bridge may deliver.  "start" is a
\* startWorkflow job with all attributes, "badstart" one with a missing
\* attribute, "evict" is removeFromCache, "other" any other job.
JobLists ==
  { <<>>, <<"start">>, <<"other">>, <<"evict">>, <<"other", "evict">>,
    <<"start", "evict">>, <<"badstart">> }

\* Activity tasks: a start whose module, function and arguments resolve
\* ("ok") or do not, and a cancel.
ActVariants == {"start:ok", "start:nomodule", "start:nofn", "start:badargs", "cancel"}

States ==
  {"INITIALIZED", "RUNNING", "SUSPENDED", "STOPPING", "DRAINING", "DRAINED",
   "STOPPED", "FAILED"}

VARIABLES
  state,                       \* stateSubject value
  statesSeen,                  \* every value the state setter was given
  runStatus,                   \* run(): "init", "active", "finalizing", "resolved", "rejected"
  runError,                    \* the error the merged observable failed with
  shutdownReq,                 \* nativeWorker.shutdown(): "none", "pending", "acked"
  completeShutdownCalled,      \* nativeWorker.completeShutdown() was called
  poolDestroyed,               \* isolateContextProvider.destroy() was called
  timer,                       \* grace timer: "off", "armed", "cancelled", "fired"
  wfPoll, actPoll,             \* poll loops: "none", "polling", "waiting", "done"
  wfBudget, actBudget,         \* poll results the bridge still has to deliver
  wfDelivered,                 \* run id -> activations polled for the run so far
  actDelivered,                \* activity tasks polled so far
  wfGroups,                    \* run id -> group of closeableGroupBy
  wfOrder,                     \* live workflow groups, oldest first
  wfSteps,                     \* processing steps that have not returned
  wfCompletions,               \* completeWorkflowActivation calls not yet returned
  numInFlightActivations,
  numRunningWorkflowInstances,
  actGroups,                   \* task token -> group
  actCompletions,              \* completeActivityTask calls not yet returned
  numInFlightActivities,
  lastCall,                    \* the public method called in the last step and how it ended
  lastReturn,                  \* what a call to the bridge returned in the last step
  completions,                 \* sandbox: state.completions, the task ids with a pending completion
  commands,                    \* sandbox: state.commands, the number of commands buffered
  completed,                   \* sandbox: state.completed
  cancelled,                   \* sandbox: state.cancelled
  lastJob,                     \* sandbox: the activation job handled in the last step
  isReplaying,                 \* workflow.info.isReplaying of the handle
  lastExternal,                \* the call of an injected function made in the last step
  activities,                  \* bundler and worker: the activities resolved at creation
  vol,                         \* bundler: the stub files written to the virtual fs
  resolution                   \* worker: what the last start task resolved to

lifeVars == <<state, statesSeen, runStatus, runError, shutdownReq,
              completeShutdownCalled, poolDestroyed, timer>>
pollVars == <<wfPoll, actPoll, wfBudget, actBudget, wfDelivered, actDelivered>>
wfVars == <<wfGroups, wfOrder, wfSteps, wfCompletions, numInFlightActivations,
            numRunningWorkflowInstances>>
actVars == <<actGroups, actCompletions, numInFlightActivities>>
activatorVars == <<completions, commands, completed, cancelled, lastJob>>
dependencyVars == <<isReplaying, lastExternal>>
bundlerVars == <<activities, vol, resolution>>

\* The state of one workflow sandbox, of the functions injected into it and
\* of the activity stubs.
auxVars == <<activatorVars, dependencyVars, bundlerVars>>

vars == <<lifeVars, pollVars, wfVars, actVars, lastCall, lastReturn, auxVars>>

\* Everything but the record of the last call.
workerVars == <<lifeVars, pollVars, wfVars, actVars>>

\* The public methods of the Worker that change its state.
Methods == {"run", "suspendPolling", "resumePolling", "shutdown"}

\* The output of a workflow processing step that did not run.
NoOut ==
  [state |-> "none", close |-> FALSE, completion |-> "none", error |-> "none",
   disposes |-> 0]

NoActivation == [id |-> 0, src |-> "none", jobs |-> <<>>]

\* No call to the bridge or to the sandbox returned in the step.
NoReturn ==
  [call |-> "none", loop |-> "none", token |-> "none", variant |-> "none",
   error |-> "none", workflow |-> "none", act |-> NoActivation,
   sandbox |-> "none", out |-> NoOut]

\* pollActivityTask resolved with a task.
PolledTask(t, variant) ==
  [NoReturn EXCEPT !.call = "poll", !.loop = "activity", !.token = t,
                   !.variant = variant]

\* A poll call of a loop rejected with an error.
PollRejected(loop, err) ==
  [NoReturn EXCEPT !.call = "poll", !.loop = loop, !.error = err]

\* A completion call of a pipeline, for a run or a task token, resolved
\* (err is "none") or rejected with err.
CompletionReturned(loop, token, err) ==
  [NoReturn EXCEPT !.call = "complete", !.loop = loop, !.token = token,
                   !.error = err]

\* The activity of token t called heartbeat: the value was handed to
\* recordActivityHeartbeat (error is "none") or found no subscriber.
HeartbeatEmitted(t, forwarded) ==
  [NoReturn EXCEPT !.call = "heartbeat", !.loop = "activity", !.token = t,
                   !.error = IF forwarded THEN "none" ELSE "dropped"]

\* The processing step of run r returned: workflow is the handle the group
\* held when the step was called, act the activation, sandbox what the
\* sandbox calls did, out what the step returned.
StepReturned(r, workflow, act, sandbox, out) ==
  [NoReturn EXCEPT !.call = "step", !.loop = "workflow", !.token = r,
                   !.error = out.error, !.workflow = workflow, !.act = act,
                   !.sandbox = sandbox, !.out = out]

\* No public method was called in the step.
NoCall == [method |-> "none", threw |-> "none"]

\* A public method returns or throws IllegalStateError.
Returned(method) == [method |-> method, threw |-> "none"]
Threw(method) == [method |-> method, threw |-> "IllegalStateError"]

\* ------------------------------------------------------- lifecycle helpers

\* The state setter: logs and publishes the new value.
SetState(s) ==
  /\ state' = s
  /\ statesSeen' = statesSeen \cup {s}

\* A switch that has no case for SUSPENDED and polls.
PollGateIgnoringSuspend(st) ==
  CASE st \in {"RUNNING", "SUSPENDED", "STOPPING", "DRAINING"} -> "polling"
    [] OTHER -> "error"

\* The switch of pollLoop$: what the loop does when it inspects the state.
PollGate(st) ==
  CASE st \in {"RUNNING", "STOPPING", "DRAINING"} -> "polling"
    [] st = "SUSPENDED" -> "waiting"
    [] OTHER -> "error"

\* A state change to STOPPING that ends the loop, poll in flight or not.
RewakeCancelsPoll(loop, st) ==
  IF st = "STOPPING" THEN "done"
  ELSE IF loop = "waiting" /\ st # "SUSPENDED" THEN "polling"
  ELSE loop

\* A loop that waits in SUSPENDED re-inspects the state when it changes.
Rewake(loop, st) ==
  IF loop = "waiting" /\ st # "SUSPENDED"
    THEN (IF PollGate(st) = "polling" THEN "polling" ELSE "done")
    ELSE loop

Seen(s) == s \in statesSeen

\* A feedback subject that ends when the state becomes STOPPING.
FeedbackClosedAtStopping == runStatus = "active" /\ ~Seen("STOPPING")

\* The feedback subject without takeUntilState.
FeedbackStaysOpen == runStatus = "active"

\* takeUntilState('DRAINING') on the feedback subject, subscribed by run().
FeedbackOpen == runStatus = "active" /\ ~Seen("DRAINING")

\* A heartbeat subject that ends when the state becomes DRAINING.
HeartbeatOpenUntilDraining == runStatus = "active" /\ ~Seen("DRAINING")

\* takeUntilState('DRAINED') on the heartbeat subject, subscribed by run().
HeartbeatOpen == runStatus = "active" /\ ~Seen("DRAINED")

\* ------------------------------------------------- workflow processing step

NoGroup == [live |-> FALSE, handle |-> "none", queue |-> <<>>, idle |-> FALSE]

IdleEviction == [id |-> 0, src |-> "idle", jobs |-> <<"evict">>]
FeedbackEviction == [id |-> 0, src |-> "feedback", jobs |-> <<"evict">>]

\* The job list taken as it is.
NonEvictionUnfiltered(jobs) == jobs

\* activation.jobs.filter(({ removeFromCache }) => !removeFromCache)
NonEviction(jobs) == SelectSeq(jobs, LAMBDA j : j # "evict")

\* A search that looks at the first job only.
FindStartFirstOnly(jobs) ==
  IF jobs = <<>> THEN "none"
  ELSE IF Head(jobs) \in {"start", "badstart"} THEN Head(jobs)
  ELSE "none"

\* activation.jobs.find((j) => j.startWorkflow)
RECURSIVE FindStart(_)
FindStart(jobs) ==
  IF jobs = <<>> THEN "none"
  ELSE IF Head(jobs) \in {"start", "badstart"} THEN Head(jobs)
  ELSE FindStart(Tail(jobs))

\* The step creates a Workflow (and counts it as a running instance) before
\* its first await.
CreatesWorkflow(workflow, activationJobs) ==
  /\ NonEviction(activationJobs) # <<>>
  /\ workflow = "none"
  /\ FindStart(NonEviction(activationJobs)) = "start"

\* The step awaits the sandbox (Workflow.create or workflow.activate); every
\* other step awaits resolved promises only.
AwaitsSandbox(workflow, activationJobs) ==
  /\ NonEviction(activationJobs) # <<>>
  /\ (workflow # "none" \/ FindStart(NonEviction(activationJobs)) = "start")

\* workflow?.dispose(): the number of calls of dispose it makes.
Dispose(workflow) == IF workflow = "none" THEN 0 ELSE 1

\* A catch block that hands the handle back without disposing it.
CaughtKeepsHandle(err, workflow, disposed) ==
  [state |-> workflow, close |-> FALSE, completion |-> "failed", error |-> err,
   disposes |-> disposed]

\* The catch block of the step: workflow is the local variable when err was
\* thrown, disposed the calls of dispose made before.
Caught(err, workflow, disposed) ==
  [state |-> "none", close |-> TRUE, completion |-> "failed", error |-> err,
   disposes |-> disposed + Dispose(workflow)]

\* What the awaited sandbox calls of a step may do: all resolve ("ok"),
\* Workflow.create rejects ("nocreate"), or injectDependencies or
\* workflow.activate throws ("throw").
SandboxOutcomes == {"ok", "nocreate", "throw"}

\* The function given to mergeMapWithState: the group's handle and an
\* activation in, the new handle and the output out, with the number of
\* calls of dispose the step made.
ProcessActivation(workflow, activationJobs, sandbox) ==
  LET jobs == NonEviction(activationJobs)
      close == Len(jobs) < Len(activationJobs)
  IN IF jobs = <<>>
       THEN IF ~close
              THEN Caught("IllegalStateError", workflow, Dispose(workflow))
              ELSE [state |-> "none", close |-> close, completion |-> "none",
                    error |-> "none", disposes |-> Dispose(workflow)]
     ELSE IF workflow = "none" /\ FindStart(jobs) = "badstart"
       THEN Caught("TypeError", workflow, 0)
     ELSE IF workflow = "none" /\ FindStart(jobs) = "none"
       THEN Caught("IllegalStateError", workflow, 0)
     ELSE IF workflow = "none" /\ sandbox = "nocreate"
       THEN Caught("SandboxError", workflow, 0)
     ELSE IF sandbox = "throw"
       THEN Caught("SandboxError", "live", 0)
     ELSE [state |-> "live", close |-> close, completion |-> "ok",
           error |-> "none", disposes |-> 0]

\* The call of workflow.activate a step makes: the job list it hands over,
\* or no call when the step returns or throws before it.
NotActivated == [called |-> FALSE, jobs |-> <<>>]

ActivateCall(workflow, activationJobs, sandbox) ==
  LET jobs == NonEviction(activationJobs)
  IN IF jobs = <<>> THEN NotActivated
     ELSE IF workflow = "none" /\ FindStart(jobs) # "start" THEN NotActivated
     ELSE IF workflow = "none" /\ sandbox = "nocreate" THEN NotActivated
     ELSE [called |-> TRUE, jobs |-> jobs]

\* ------------------------------------------------------- workflow pipeline
\* The pipeline state handled as one record: g the groups, order the live
\* groups oldest first, steps the running steps, n the in-flight activation
\* gauge, running the running-workflow-instances gauge.

WS ==
  [g |-> wfGroups, order |-> wfOrder, steps |-> wfSteps,
   n |-> numInFlightActivations, running |-> numRunningWorkflowInstances]

SetWS(ws) ==
  /\ wfGroups' = ws.g
  /\ wfOrder' = ws.order
  /\ wfSteps' = ws.steps
  /\ numInFlightActivations' = ws.n
  /\ numRunningWorkflowInstances' = ws.running

StepsOf(steps, r) == {s \in steps : s.run = r}

\* A fan-out that starts every step at once.
CanStartStepAtOnce(ws, r) == TRUE

\* mergeMapWithState: a step starts when the previous step of the group has
\* returned its state, never before.
CanStartStep(ws, r) == StepsOf(ws.steps, r) = {}

\* The step function is called: it runs up to its first await.
BeginStep(ws, r, act) ==
  LET workflow == ws.g[r].handle
  IN [ws EXCEPT
        !.steps = @ \cup {[run |-> r, act |-> act,
                           async |-> AwaitsSandbox(workflow, act.jobs)]},
        !.running = @ + (IF CreatesWorkflow(workflow, act.jobs) THEN 1 ELSE 0)]

\* The step function under a plain mergeMap: every activation runs at once.
FeedGroupUnserialized(ws, r, act) ==
  BeginStep([ws EXCEPT !.n = @ + 1], r, act)

\* An activation reaches the tap that counts it in flight and then
\* mergeMapWithState, which runs it at once or keeps it behind the running step.
FeedGroup(ws, r, act) ==
  LET counted == [ws EXCEPT !.n = @ + 1]
  IN IF CanStartStep(counted, r)
       THEN BeginStep(counted, r, act)
       ELSE [counted EXCEPT !.g[r].queue = Append(@, act)]

\* closeableGroupBy meets a key without a group: the group is created and
\* handed downstream, where it is merged with workflowsIdle$, before it is
\* given the activation that created it.  workflowsIdle$ emits on subscription
\* when the state is DRAINING and nothing is in flight.
OpenGroup(ws, st, r) ==
  LET fire == st = "DRAINING" /\ ws.n = 0
      made == [ws EXCEPT
                 !.g[r] = [live |-> TRUE, handle |-> "none",
                           queue |-> <<>>, idle |-> ~fire],
                 !.order = Append(@, r)]
  IN IF fire THEN FeedGroup(made, r, IdleEviction) ELSE made

\* A grouping that loses the activation.
EnterGroupDropped(ws, st, r, act) == ws

\* An activation enters the group of its run.
EnterGroup(ws, st, r, act) ==
  IF ws.g[r].live
    THEN FeedGroup(ws, r, act)
    ELSE FeedGroup(OpenGroup(ws, st, r), r, act)

\* workflowsIdle$ when the gauge is published as 0 in DRAINING: the value is
\* handed to every subscriber in turn, so every group whose first() has not
\* emitted yet emits its eviction, although the gauge is raised again meanwhile.
RECURSIVE SweepAll(_, _)
SweepAll(ws, order) ==
  IF order = <<>> THEN ws
  ELSE LET r == Head(order)
           next == IF ws.g[r].live /\ ws.g[r].idle
                     THEN FeedGroup([ws EXCEPT !.g[r].idle = FALSE], r, IdleEviction)
                     ELSE ws
       IN SweepAll(next, Tail(order))

\* workflowsIdle$ when the state is published as DRAINING with the gauge at 0:
\* the first subscriber emits and raises the gauge before the others see the
\* new state.
RECURSIVE SweepFirst(_, _)
SweepFirst(ws, order) ==
  IF order = <<>> THEN ws
  ELSE LET r == Head(order)
       IN IF ws.g[r].live /\ ws.g[r].idle
            THEN FeedGroup([ws EXCEPT !.g[r].idle = FALSE], r, IdleEviction)
            ELSE SweepFirst(ws, Tail(order))

\* A workflowsIdle$ that looks at the gauge only.
DecrementSweepsInAnyState(ws, st) ==
  LET less == [ws EXCEPT !.n = @ - 1]
  IN IF less.n = 0 THEN SweepAll(less, less.order) ELSE less

\* numInFlightActivationsSubject.next(value - 1)
Decrement(ws, st) ==
  LET less == [ws EXCEPT !.n = @ - 1]
  IN IF st = "DRAINING" /\ less.n = 0 THEN SweepAll(less, less.order) ELSE less

RemoveRun(order, r) == SelectSeq(order, LAMBDA x : x # r)

\* A close that leaves the running-workflow-instances gauge alone.
CloseGroupUncounted(ws, r) ==
  [ws EXCEPT !.g[r] = NoGroup,
             !.order = RemoveRun(@, r),
             !.steps = @ \ StepsOf(@, r)]

\* group$.close() and takeWhile: the group ends, what it still held is dropped.
CloseGroup(ws, r) ==
  [ws EXCEPT !.g[r] = NoGroup,
             !.order = RemoveRun(@, r),
             !.steps = @ \ StepsOf(@, r),
             !.running = @ - 1]

\* mergeMapWithState after a step returned: the next queued activation runs.
StartNext(ws, r) ==
  IF ws.g[r].queue # <<>> /\ CanStartStep(ws, r)
    THEN BeginStep([ws EXCEPT !.g[r].queue = Tail(@)], r, Head(ws.g[r].queue))
    ELSE ws

\* A step returns: the new handle is stored, the tap lowers the gauge and
\* closes the group when the output says close.
StepReturns(ws, st, s, out) ==
  LET r == s.run
      stored == [ws EXCEPT !.g[r].handle = out.state]
      lowered == Decrement(stored, st)
      done == [lowered EXCEPT !.steps = @ \ {s}]
  IN IF out.close THEN CloseGroup(done, r) ELSE StartNext(done, r)

\* ------------------------------------------------------- activity pipeline

NoActGroup == [live |-> FALSE, handle |-> "none", running |-> FALSE,
               cancelled |-> FALSE, id |-> 0]

\* Every synthesized failure carries the same message.
StartFailureGeneric(variant) ==
  CASE variant \in {"start:nomodule", "start:nofn", "start:badargs"} ->
         "Activity failed"
    [] OTHER -> "none"

\* The result the start variant synthesizes without creating an Activity.
StartFailure(variant) ==
  CASE variant = "start:nomodule" -> "Activity module not found"
    [] variant = "start:nofn" -> "Activity function not found"
    [] variant = "start:badargs" -> "Failed to parse activity args"
    [] OTHER -> "none"

\* A start is accepted whatever the group holds.
DuplicateStartAccepted(activity, variant) == FALSE

\* if (activity !== undefined) in the start variant.
DuplicateStart(activity, variant) ==
  variant # "cancel" /\ activity # "none"

\* A cancel of a running activity is answered with a result of its own.
HandleActivityTaskCancelCompletes(activity, variant) ==
  IF variant = "cancel"
    THEN [state |-> activity,
          type |-> IF activity = "none" THEN "ignore" ELSE "result",
          message |-> "none", cancel |-> activity # "none"]
  ELSE IF DuplicateStart(activity, variant)
    THEN [state |-> activity, type |-> "throw", message |-> "IllegalStateError",
          cancel |-> FALSE]
  ELSE IF StartFailure(variant) # "none"
    THEN [state |-> "none", type |-> "result", message |-> StartFailure(variant),
          cancel |-> FALSE]
  ELSE [state |-> "live", type |-> "run", message |-> "none", cancel |-> FALSE]

\* A cancel without an activity is answered with a failure result.
HandleActivityTaskCancelAnswered(activity, variant) ==
  IF variant = "cancel"
    THEN [state |-> activity,
          type |-> IF activity = "none" THEN "result" ELSE "ignore",
          message |-> "none", cancel |-> activity # "none"]
  ELSE IF DuplicateStart(activity, variant)
    THEN [state |-> activity, type |-> "throw", message |-> "IllegalStateError",
          cancel |-> FALSE]
  ELSE IF StartFailure(variant) # "none"
    THEN [state |-> "none", type |-> "result", message |-> StartFailure(variant),
          cancel |-> FALSE]
  ELSE [state |-> "live", type |-> "run", message |-> "none", cancel |-> FALSE]

\* The function given to mergeMapWithState in activityOperator: the group's
\* activity and a task in, the new activity and the output out.  type is the
\* type of the output, or "throw" with the error in message; cancel says
\* that activity.cancel() was called.
HandleActivityTask(activity, variant) ==
  IF variant = "cancel"
    THEN [state |-> activity, type |-> "ignore", message |-> "none",
          cancel |-> activity # "none"]
  ELSE IF DuplicateStart(activity, variant)
    THEN [state |-> activity, type |-> "throw", message |-> "IllegalStateError",
          cancel |-> FALSE]
  ELSE IF StartFailure(variant) # "none"
    THEN [state |-> "none", type |-> "result", message |-> StartFailure(variant),
          cancel |-> FALSE]
  ELSE [state |-> "live", type |-> "run", message |-> "none", cancel |-> FALSE]

ActRunning == \E t \in Tokens : actGroups[t].running

\* ------------------------------------------------------------- completion

\* workflow$() without the feedback subject merged into its source.
WorkflowsCompleteNoFeedback ==
  /\ wfPoll = "done"
  /\ wfOrder = <<>>
  /\ wfCompletions = {}

\* workflow$() completes: the poll loop and the feedback subject ended, every
\* group ended and every completion call returned.
WorkflowsComplete ==
  /\ wfPoll = "done"
  /\ Seen("DRAINING")
  /\ wfOrder = <<>>
  /\ wfCompletions = {}

\* activity$() completes.
ActivitiesComplete ==
  /\ actPoll = "done"
  /\ ~ActRunning
  /\ actCompletions = {}

\* Work of the current turn of the event loop that is still to be done: a step
\* that awaits no I/O, or the completion of the observables run() merges.
Urgent ==
  /\ runStatus = "active"
  /\ \/ \E s \in wfSteps : ~s.async
     \/ state # "DRAINED" /\ WorkflowsComplete /\ ActivitiesComplete
     \/ state = "DRAINED"

Ready == runStatus = "active" /\ ~Urgent

\* ---------------------------------------------------------------- lifecycle

\* No activation job was handled in the step.
NoJob == [job |-> "none", id |-> 0, threw |-> "none", resolved |-> 0]

\* No injected function was called in the step.
NoExternal ==
  [fn |-> "none", callDuringReplay |-> FALSE, replaying |-> FALSE,
   invoked |-> FALSE]

\* The sandbox of a workflow that has not been activated.
SandboxIdle ==
  /\ completions = {}
  /\ commands = 0
  /\ completed = FALSE
  /\ cancelled = FALSE
  /\ lastJob = NoJob
  /\ isReplaying = FALSE
  /\ lastExternal = NoExternal

\* The names a module of activities may export, and what it exports there.
ExportNames == {"f", "g"}
ExportKinds == {"function", "value", "absent"}

NoResolution ==
  [activityType |-> <<>>, outcome |-> "none", path |-> <<>>, fnName |-> <<>>]

\* No activities registered, nothing bundled.
BundlerIdle ==
  /\ activities = [specifier |-> <<>>,
                   module |-> [k \in ExportNames |-> "absent"]]
  /\ vol = {}
  /\ resolution = NoResolution

WorkerInit ==
  /\ state = "INITIALIZED"
  /\ statesSeen = {"INITIALIZED"}
  /\ runStatus = "init"
  /\ runError = "none"
  /\ shutdownReq = "none"
  /\ completeShutdownCalled = FALSE
  /\ poolDestroyed = FALSE
  /\ timer = "off"
  /\ wfPoll = "none"
  /\ actPoll = "none"
  /\ \E b \in Budgets : wfBudget = b.wf /\ actBudget = b.act
  /\ wfDelivered = [r \in Runs |-> 0]
  /\ actDelivered = 0
  /\ wfGroups = [r \in Runs |-> NoGroup]
  /\ wfOrder = <<>>
  /\ wfSteps = {}
  /\ wfCompletions = {}
  /\ numInFlightActivations = 0
  /\ numRunningWorkflowInstances = 0
  /\ actGroups = [t \in Tokens |-> NoActGroup]
  /\ actCompletions = {}
  /\ numInFlightActivities = 0
  /\ lastCall = NoCall
  /\ lastReturn = NoReturn

Init == WorkerInit /\ SandboxIdle /\ BundlerIdle

\* The merged observable of run() ends: every subscription inside it is
\* dropped, so no poll result, step or completion is looked at any more.  The
\* gauges keep their values.
Unsubscribed ==
  /\ wfPoll' = "done"
  /\ actPoll' = "done"
  /\ wfBudget' = 0
  /\ actBudget' = 0
  /\ wfDelivered' = [r \in Runs |-> 0]
  /\ actDelivered' = 0
  /\ wfGroups' = [r \in Runs |-> NoGroup]
  /\ wfOrder' = <<>>
  /\ wfSteps' = {}
  /\ wfCompletions' = {}
  /\ actGroups' = [t \in Tokens |-> NoActGroup]
  /\ actCompletions' = {}
  /\ UNCHANGED <<numInFlightActivations, numRunningWorkflowInstances,
                 numInFlightActivities>>

\* The tap({error}) of run() followed by the start of its finally block: the
\* merged observable failed with err.
Fatal(err) ==
  /\ SetState("FAILED")
  /\ runStatus' = "finalizing"
  /\ runError' = err
  /\ completeShutdownCalled' = TRUE
  /\ timer' = IF timer = "armed"
                THEN (IF err = "GracefulShutdownPeriodExpiredError"
                        THEN "fired" ELSE "cancelled")
                ELSE timer
  /\ Unsubscribed
  /\ lastCall' = NoCall
  /\ UNCHANGED auxVars
  /\ UNCHANGED <<shutdownReq, poolDestroyed>>

\* run() without the check of the state.
RunUnchecked ==
  /\ ~Urgent
  /\ runStatus \in {"init", "resolved", "rejected"}
  /\ SetState("RUNNING")
  /\ runStatus' = "active"
  /\ wfPoll' = PollGate("RUNNING")
  /\ actPoll' = PollGate("RUNNING")
  /\ lastCall' = Returned("run")
  /\ UNCHANGED auxVars
  /\ lastReturn' = NoReturn
  /\ UNCHANGED <<runError, shutdownReq, completeShutdownCalled, poolDestroyed,
                 timer, wfBudget, actBudget, wfDelivered, actDelivered,
                 wfVars, actVars>>

\* run(): outside INITIALIZED it throws; in INITIALIZED both poll loops are
\* subscribed and inspect the state at once.
Run ==
  /\ ~Urgent
  /\ IF state # "INITIALIZED"
       THEN /\ lastCall' = Threw("run")
            /\ UNCHANGED auxVars
            /\ lastReturn' = NoReturn
            /\ UNCHANGED workerVars
       ELSE /\ SetState("RUNNING")
            /\ runStatus' = "active"
            /\ wfPoll' = PollGate("RUNNING")
            /\ actPoll' = PollGate("RUNNING")
            /\ lastCall' = Returned("run")
            /\ UNCHANGED auxVars
            /\ lastReturn' = NoReturn
            /\ UNCHANGED <<runError, shutdownReq, completeShutdownCalled,
                           poolDestroyed, timer, wfBudget, actBudget,
                           wfDelivered, actDelivered, wfVars, actVars>>

\* suspendPolling() without the check of the state.
SuspendPollingUnchecked ==
  /\ ~Urgent
  /\ SetState("SUSPENDED")
  /\ lastCall' = Returned("suspendPolling")
  /\ UNCHANGED auxVars
  /\ lastReturn' = NoReturn
  /\ UNCHANGED <<runStatus, runError, shutdownReq, completeShutdownCalled,
                 poolDestroyed, timer, pollVars, wfVars, actVars>>

SuspendPolling ==
  /\ ~Urgent
  /\ IF state # "RUNNING"
       THEN /\ lastCall' = Threw("suspendPolling")
            /\ UNCHANGED auxVars
            /\ lastReturn' = NoReturn
            /\ UNCHANGED workerVars
       ELSE /\ SetState("SUSPENDED")
            /\ lastCall' = Returned("suspendPolling")
            /\ UNCHANGED auxVars
            /\ lastReturn' = NoReturn
            /\ UNCHANGED <<runStatus, runError, shutdownReq,
                           completeShutdownCalled, poolDestroyed, timer,
                           pollVars, wfVars, actVars>>

\* What a state change to st does to the two poll loops.
WakeLoops(st) ==
  /\ wfPoll' = Rewake(wfPoll, st)
  /\ actPoll' = Rewake(actPoll, st)
  /\ UNCHANGED <<wfBudget, actBudget, wfDelivered, actDelivered>>

ResumePolling ==
  /\ ~Urgent
  /\ IF state # "SUSPENDED"
       THEN /\ lastCall' = Threw("resumePolling")
            /\ UNCHANGED auxVars
            /\ lastReturn' = NoReturn
            /\ UNCHANGED workerVars
       ELSE /\ SetState("RUNNING")
            /\ WakeLoops("RUNNING")
            /\ lastCall' = Returned("resumePolling")
            /\ UNCHANGED auxVars
            /\ lastReturn' = NoReturn
            /\ UNCHANGED <<runStatus, runError, shutdownReq,
                           completeShutdownCalled, poolDestroyed, timer,
                           wfVars, actVars>>

\* shutdown() without the check of the state.
ShutdownUnchecked ==
  /\ ~Urgent
  /\ runStatus = "active"
  /\ SetState("STOPPING")
  /\ shutdownReq' = "pending"
  /\ timer' = IF timer = "off" THEN "armed" ELSE timer
  /\ WakeLoops("STOPPING")
  /\ lastCall' = Returned("shutdown")
  /\ UNCHANGED auxVars
  /\ lastReturn' = NoReturn
  /\ UNCHANGED <<runStatus, runError, completeShutdownCalled, poolDestroyed,
                 wfVars, actVars>>

\* shutdown(), called by the user or by the signal handler: outside RUNNING
\* and SUSPENDED it throws; otherwise STOPPING at once, the bridge is asked
\* to shut down, the grace timer of gracefulShutdown$ starts.
Shutdown ==
  /\ ~Urgent
  /\ IF state \notin {"RUNNING", "SUSPENDED"}
       THEN /\ lastCall' = Threw("shutdown")
            /\ UNCHANGED auxVars
            /\ lastReturn' = NoReturn
            /\ UNCHANGED workerVars
       ELSE /\ SetState("STOPPING")
            /\ shutdownReq' = "pending"
            /\ timer' = "armed"
            /\ WakeLoops("STOPPING")
            /\ lastCall' = Returned("shutdown")
            /\ UNCHANGED auxVars
            /\ lastReturn' = NoReturn
            /\ UNCHANGED <<runStatus, runError, completeShutdownCalled,
                           poolDestroyed, wfVars, actVars>>

\* The callback of nativeWorker.shutdown().then(...): the state is set to
\* DRAINING whatever it is.  While run() is subscribed this ends the feedback
\* subject and lets workflowsIdle$ emit.
BridgeShutdownAck ==
  /\ ~Urgent
  /\ shutdownReq = "pending"
  /\ shutdownReq' = "acked"
  /\ SetState("DRAINING")
  /\ IF runStatus = "active" /\ numInFlightActivations = 0
       THEN SetWS(SweepFirst(WS, wfOrder))
       ELSE UNCHANGED <<wfGroups, wfOrder, wfSteps, numInFlightActivations,
                        numRunningWorkflowInstances>>
  /\ UNCHANGED <<runStatus, runError, completeShutdownCalled, poolDestroyed,
                 timer, pollVars, wfCompletions, actVars>>
  /\ lastCall' = NoCall
  /\ UNCHANGED auxVars
  /\ lastReturn' = NoReturn

\* The delay elapses and its error is dropped instead of failing the worker.
GraceTimerFireSwallowed ==
  /\ Ready
  /\ timer = "armed"
  /\ timer' = "fired"
  /\ UNCHANGED <<state, statesSeen, runStatus, runError, shutdownReq,
                 completeShutdownCalled, poolDestroyed, pollVars, wfVars, actVars>>
  /\ lastCall' = NoCall
  /\ UNCHANGED auxVars
  /\ lastReturn' = NoReturn

\* The delay of gracefulShutdown$ elapses before DRAINED was published.
GraceTimerFire ==
  /\ Ready
  /\ timer = "armed"
  /\ Fatal("GracefulShutdownPeriodExpiredError")
  /\ lastReturn' = NoReturn

\* merge(workflow$, activity$) completes: tap({complete}) sets DRAINED, which
\* decides the race of gracefulShutdown$.
PipelinesComplete ==
  /\ runStatus = "active"
  /\ state # "DRAINED"
  /\ WorkflowsComplete
  /\ ActivitiesComplete
  /\ SetState("DRAINED")
  /\ timer' = IF timer = "armed" THEN "cancelled" ELSE timer
  /\ UNCHANGED <<runStatus, runError, shutdownReq, completeShutdownCalled,
                 poolDestroyed, pollVars, wfVars, actVars>>
  /\ lastCall' = NoCall
  /\ UNCHANGED auxVars
  /\ lastReturn' = NoReturn

\* The outer merge completes: STOPPED, the promise resolves and the finally
\* block of run() calls completeShutdown.
RunComplete ==
  /\ runStatus = "active"
  /\ state = "DRAINED"
  /\ SetState("STOPPED")
  /\ runStatus' = "finalizing"
  /\ completeShutdownCalled' = TRUE
  /\ Unsubscribed
  /\ UNCHANGED <<runError, shutdownReq, poolDestroyed, timer>>
  /\ lastCall' = NoCall
  /\ UNCHANGED auxVars
  /\ lastReturn' = NoReturn

\* completeShutdown() returns: the pool is destroyed and run() settles.
RunSettle ==
  /\ runStatus = "finalizing"
  /\ poolDestroyed' = TRUE
  /\ runStatus' = IF runError = "none" THEN "resolved" ELSE "rejected"
  /\ UNCHANGED <<state, statesSeen, runError, shutdownReq, completeShutdownCalled,
                 timer, pollVars, wfVars, actVars>>
  /\ lastCall' = NoCall
  /\ UNCHANGED auxVars
  /\ lastReturn' = NoReturn

\* ------------------------------------------------------------- poll loops

\* Run ids and task tokens are names the server chooses: the first run an
\* activation is polled for is called r1, the first token a task is polled
\* for t1.
NamedInOrder(r) == r = "r1" \/ wfDelivered["r1"] > 0

TokenNamedInOrder(t) == t = "t1" \/ actDelivered > 0

\* repeat() of pollLoop$ after a poll result was emitted: the loop inspects
\* the state again.  The state cannot be one of the default branch here.
WfRepoll(r) ==
  /\ wfPoll' = PollGate(state)
  /\ wfBudget' = wfBudget - 1
  /\ wfDelivered' = [wfDelivered EXCEPT ![r] = @ + 1]
  /\ UNCHANGED <<actPoll, actBudget, actDelivered>>

ActRepoll ==
  /\ actPoll' = PollGate(state)
  /\ actBudget' = actBudget - 1
  /\ actDelivered' = actDelivered + 1
  /\ UNCHANGED <<wfPoll, wfBudget, wfDelivered>>

\* pollWorkflowActivation resolves with an activation of run r.
WfPollActivation(r, jobs) ==
  /\ Ready
  /\ wfPoll = "polling"
  /\ wfBudget > 0
  /\ NamedInOrder(r)
  /\ SetWS(EnterGroup(WS, state, r,
                      [id |-> wfDelivered[r] + 1, src |-> "poll", jobs |-> jobs]))
  /\ WfRepoll(r)
  /\ UNCHANGED <<lifeVars, wfCompletions, actVars>>
  /\ lastCall' = NoCall
  /\ UNCHANGED auxVars
  /\ lastReturn' = NoReturn

\* pollWorkflowActivation rejects with WorkflowError{runId: r}: the loop emits
\* an activation with a single removeFromCache job.
WfPollWorkflowError(r) ==
  /\ Ready
  /\ wfPoll = "polling"
  /\ wfBudget > 0
  /\ NamedInOrder(r)
  /\ SetWS(EnterGroup(WS, state, r,
                      [id |-> wfDelivered[r] + 1, src |-> "pollerror",
                       jobs |-> <<"evict">>]))
  /\ WfRepoll(r)
  /\ UNCHANGED <<lifeVars, wfCompletions, actVars>>
  /\ lastCall' = NoCall
  /\ UNCHANGED auxVars
  /\ lastReturn' = [PollRejected("workflow", "WorkflowError") EXCEPT !.token = r]

\* A catchError that ends the loop on every error.
PollLoopCatchAll(err) == "complete"

\* catchError of pollLoop$: ShutdownError ends the loop, any other error is
\* thrown again.
PollLoopCatch(err) ==
  IF err = "ShutdownError" THEN "complete" ELSE "throw"

\* pollWorkflowActivation rejects with err, which is not a WorkflowError.
WfPollRejects(err) ==
  /\ Ready
  /\ wfPoll = "polling"
  /\ lastReturn' = PollRejected("workflow", err)
  /\ IF PollLoopCatch(err) = "complete"
       THEN /\ wfPoll' = "done"
            /\ lastCall' = NoCall
            /\ UNCHANGED auxVars
            /\ UNCHANGED <<lifeVars, actPoll, wfBudget, actBudget, wfDelivered,
                           actDelivered, wfVars, actVars>>
       ELSE Fatal(err)

\* pollActivityTask rejects with err.
ActPollRejects(err) ==
  /\ Ready
  /\ actPoll = "polling"
  /\ lastReturn' = PollRejected("activity", err)
  /\ IF PollLoopCatch(err) = "complete"
       THEN /\ actPoll' = "done"
            /\ lastCall' = NoCall
            /\ UNCHANGED auxVars
            /\ UNCHANGED <<lifeVars, wfPoll, wfBudget, actBudget, wfDelivered,
                           actDelivered, wfVars, actVars>>
       ELSE Fatal(err)

\* A poll rejects with ShutdownError, which the bridge returns once its
\* shutdown was requested.
WfPollShutdownError ==
  /\ shutdownReq # "none"
  /\ WfPollRejects("ShutdownError")

ActPollShutdownError ==
  /\ shutdownReq # "none"
  /\ ActPollRejects("ShutdownError")

\* A poll rejects with any other error.
WfPollError == WfPollRejects("PollError")

ActPollError == ActPollRejects("PollError")

\* ------------------------------------------------------ workflow pipeline

\* A processing step returns.  The output with a completion goes on to
\* completeWorkflowActivation.
WfStepDone(s, sandbox) ==
  /\ runStatus = "active"
  /\ s \in wfSteps
  /\ (Urgent => ~s.async)
  /\ (~s.async => sandbox = "ok")
  /\ (sandbox = "nocreate" => CreatesWorkflow(wfGroups[s.run].handle, s.act.jobs))
  /\ LET workflow == wfGroups[s.run].handle
         out == ProcessActivation(workflow, s.act.jobs, sandbox)
     IN /\ SetWS(StepReturns(WS, state, s, out))
        /\ wfCompletions' =
             IF out.completion = "none" THEN wfCompletions
             ELSE wfCompletions \cup
                    {[run |-> s.run, id |-> s.act.id, kind |-> out.completion]}
        /\ lastReturn' = StepReturned(s.run, workflow, s.act, sandbox, out)
  /\ UNCHANGED <<lifeVars, pollVars, actVars>>
  /\ lastCall' = NoCall
  /\ UNCHANGED auxVars

WfCompleteOk(c) ==
  /\ Ready
  /\ c \in wfCompletions
  /\ wfCompletions' = wfCompletions \ {c}
  /\ UNCHANGED <<lifeVars, pollVars, wfGroups, wfOrder, wfSteps,
                 numInFlightActivations, numRunningWorkflowInstances, actVars>>
  /\ lastCall' = NoCall
  /\ UNCHANGED auxVars
  /\ lastReturn' = CompletionReturned("workflow", c.run, "none")

\* completeWorkflowActivation rejects with WorkflowError: an eviction of the
\* run is sent to the feedback subject.
WfCompleteWorkflowError(c) ==
  /\ Ready
  /\ c \in wfCompletions
  /\ wfCompletions' = wfCompletions \ {c}
  /\ IF FeedbackOpen
       THEN SetWS(EnterGroup(WS, state, c.run, FeedbackEviction))
       ELSE UNCHANGED <<wfGroups, wfOrder, wfSteps, numInFlightActivations,
                        numRunningWorkflowInstances>>
  /\ UNCHANGED <<lifeVars, pollVars, actVars>>
  /\ lastCall' = NoCall
  /\ UNCHANGED auxVars
  /\ lastReturn' = CompletionReturned("workflow", c.run, "WorkflowError")

WfCompleteError(c) ==
  /\ Ready
  /\ c \in wfCompletions
  /\ Fatal("CompleteError")
  /\ lastReturn' = CompletionReturned("workflow", c.run, "CompleteError")

\* ------------------------------------------------------ activity pipeline

\* pollActivityTask resolves with a task of token t.  The first stage of
\* activityOperator awaits the data converter only and is part of this step.
ActPollTask(t, variant) ==
  /\ Ready
  /\ actPoll = "polling"
  /\ actBudget > 0
  /\ TokenNamedInOrder(t)
  /\ LET g == actGroups[t]
         id == actDelivered + 1
         out == HandleActivityTask(g.handle, variant)
     IN CASE out.type = "throw" -> Fatal(out.message)
          [] out.type = "ignore" ->
               /\ actGroups' = [actGroups EXCEPT
                    ![t] = [g EXCEPT !.live = TRUE,
                                     !.cancelled = @ \/ out.cancel]]
               /\ UNCHANGED <<actCompletions, numInFlightActivities>>
               /\ ActRepoll
               /\ UNCHANGED <<lifeVars, wfVars>>
          [] out.type = "run" ->
               /\ actGroups' = [actGroups EXCEPT
                    ![t] = [live |-> TRUE, handle |-> out.state,
                            running |-> TRUE, cancelled |-> FALSE, id |-> id]]
               /\ numInFlightActivities' = numInFlightActivities + 1
               /\ UNCHANGED actCompletions
               /\ ActRepoll
               /\ UNCHANGED <<lifeVars, wfVars>>
          [] out.type = "result" ->
               /\ actGroups' = [actGroups EXCEPT ![t] = NoActGroup]
               /\ numInFlightActivities' = numInFlightActivities - 1
               /\ actCompletions' = actCompletions \cup
                    {[token |-> t, id |-> id, result |-> "failed",
                      message |-> out.message]}
               /\ ActRepoll
               /\ UNCHANGED <<lifeVars, wfVars>>
  /\ lastCall' = NoCall
  /\ UNCHANGED auxVars
  /\ lastReturn' = PolledTask(t, variant)

\* activity.run(input) resolves: the completion closes the group and lowers
\* the gauge.
ActRunDone(t, result) ==
  /\ Ready
  /\ actGroups[t].running
  /\ result = "cancelled" => actGroups[t].cancelled
  /\ actGroups' = [actGroups EXCEPT ![t] = NoActGroup]
  /\ numInFlightActivities' = numInFlightActivities - 1
  /\ actCompletions' = actCompletions \cup
       {[token |-> t, id |-> actGroups[t].id, result |-> result, message |-> "none"]}
  /\ UNCHANGED <<lifeVars, pollVars, wfVars>>
  /\ lastCall' = NoCall
  /\ UNCHANGED auxVars
  /\ lastReturn' = NoReturn

\* The running activity of token t calls context.heartbeat(): the value goes
\* to activityHeartbeatSubject and, while activityHeartbeat$ is subscribed, on
\* to the bridge; encoding it awaits the data converter only.
ActHeartbeat(t) ==
  /\ Ready
  /\ actGroups[t].running
  /\ UNCHANGED workerVars
  /\ lastCall' = NoCall
  /\ UNCHANGED auxVars
  /\ lastReturn' = HeartbeatEmitted(t, HeartbeatOpen)

ActCompleteOk(c) ==
  /\ Ready
  /\ c \in actCompletions
  /\ actCompletions' = actCompletions \ {c}
  /\ UNCHANGED <<lifeVars, pollVars, wfVars, actGroups, numInFlightActivities>>
  /\ lastCall' = NoCall
  /\ UNCHANGED auxVars
  /\ lastReturn' = CompletionReturned("activity", c.token, "none")

ActCompleteError(c) ==
  /\ Ready
  /\ c \in actCompletions
  /\ Fatal("CompleteError")
  /\ lastReturn' = CompletionReturned("activity", c.token, "CompleteError")

\* ------------------------------------------------------------ specification

Next ==
  \/ Run
  \/ SuspendPolling
  \/ ResumePolling
  \/ Shutdown
  \/ BridgeShutdownAck
  \/ GraceTimerFire
  \/ PipelinesComplete
  \/ RunComplete
  \/ RunSettle
  \/ \E r \in Runs, jobs \in JobLists : WfPollActivation(r, jobs)
  \/ \E r \in Runs : WfPollWorkflowError(r)
  \/ WfPollShutdownError
  \/ WfPollError
  \/ \E s \in wfSteps, sandbox \in SandboxOutcomes : WfStepDone(s, sandbox)
  \/ \E c \in wfCompletions : WfCompleteOk(c)
  \/ \E c \in wfCompletions : WfCompleteWorkflowError(c)
  \/ \E c \in wfCompletions : WfCompleteError(c)
  \/ \E t \in Tokens, variant \in ActVariants : ActPollTask(t, variant)
  \/ ActPollShutdownError
  \/ ActPollError
  \/ \E t \in Tokens, result \in {"completed", "failed", "cancelled"} : ActRunDone(t, result)
  \/ \E t \in Tokens : ActHeartbeat(t)
  \/ \E c \in actCompletions : ActCompleteOk(c)
  \/ \E c \in actCompletions : ActCompleteError(c)

Spec == Init /\ [][Next]_vars

\* A graceful drain: no bridge call rejects with an error other than
\* ShutdownError and WorkflowError, and the grace timer does not fire.
DrainNext ==
  \/ Run
  \/ SuspendPolling
  \/ ResumePolling
  \/ Shutdown
  \/ BridgeShutdownAck
  \/ PipelinesComplete
  \/ RunComplete
  \/ RunSettle
  \/ \E r \in Runs, jobs \in JobLists : WfPollActivation(r, jobs)
  \/ \E r \in Runs : WfPollWorkflowError(r)
  \/ WfPollShutdownError
  \/ \E s \in wfSteps, sandbox \in SandboxOutcomes : WfStepDone(s, sandbox)
  \/ \E c \in wfCompletions : WfCompleteOk(c)
  \/ \E c \in wfCompletions : WfCompleteWorkflowError(c)
  \/ \E t \in Tokens, variant \in ActVariants : ActPollTask(t, variant)
  \/ ActPollShutdownError
  \/ \E t \in Tokens, result \in {"completed", "failed", "cancelled"} : ActRunDone(t, result)
  \/ \E t \in Tokens : ActHeartbeat(t)
  \/ \E c \in actCompletions : ActCompleteOk(c)

\* What the bridge, the sandbox, the activities and the event loop do sooner
\* or later: the shutdown is acknowledged, a poll that is outstanding after
\* it rejects with ShutdownError, a step or an activity that runs returns, a
\* completion call returns, and a callback that is due runs.
DrainFairness ==
  /\ WF_vars(BridgeShutdownAck)
  /\ WF_vars(WfPollShutdownError)
  /\ WF_vars(ActPollShutdownError)
  /\ WF_vars(\E s \in wfSteps, sandbox \in SandboxOutcomes : WfStepDone(s, sandbox))
  /\ WF_vars(\E c \in wfCompletions : WfCompleteOk(c))
  /\ WF_vars(\E t \in Tokens, result \in {"completed", "failed", "cancelled"} :
               ActRunDone(t, result))
  /\ WF_vars(\E c \in actCompletions : ActCompleteOk(c))
  /\ WF_vars(PipelinesComplete)
  /\ WF_vars(RunComplete)
  /\ WF_vars(RunSettle)

DrainSpec == Init /\ [][DrainNext]_vars /\ DrainFairness

\* -------------------------------------------------------- workflow sandbox

\* Task ids of the timers and activities of one workflow; NoId stands for
\* an activation job whose id attribute is missing.
Seqs == 1..MaxSeq
NoId == 0
ActivityResults == {"none", "completed", "failed", "canceled"}

idToSeq(id) ==
  IF id = NoId
  THEN [threw |-> "TypeError", seq |-> NoId]
  ELSE [threw |-> "none", seq |-> id]

\* The lookup that forgets to delete the entry it returns.
consumeCompletionKeepsEntry(map, taskId) ==
  IF taskId \notin map
  THEN [threw |-> "IllegalStateError", completions |-> map, completion |-> NoId]
  ELSE [threw |-> "none", completions |-> map, completion |-> taskId]

consumeCompletion(map, taskId) ==
  IF taskId \notin map
  THEN [threw |-> "IllegalStateError", completions |-> map, completion |-> NoId]
  ELSE [threw |-> "none", completions |-> map \ {taskId}, completion |-> taskId]

\* A job that consumes the completion its id names and settles it.
ConsumeJob(job, id, precondition) ==
  LET s == idToSeq(id)
      c == consumeCompletion(completions, s.seq)
  IN  IF precondition # "none"
      THEN /\ lastJob' = [job |-> job, id |-> id, threw |-> precondition,
                          resolved |-> NoId]
           /\ UNCHANGED completions
      ELSE IF s.threw # "none"
      THEN /\ lastJob' = [job |-> job, id |-> id, threw |-> s.threw,
                          resolved |-> NoId]
           /\ UNCHANGED completions
      ELSE /\ lastJob' = [job |-> job, id |-> id, threw |-> c.threw,
                          resolved |-> c.completion]
           /\ completions' = c.completions

FireTimer(id) ==
  /\ ConsumeJob("fireTimer", id, "none")
  /\ lastExternal' = NoExternal
  /\ UNCHANGED <<commands, completed, cancelled, isReplaying>>
  /\ UNCHANGED <<workerVars, lastCall, lastReturn, bundlerVars>>

ResolveActivity(id, result) ==
  /\ ConsumeJob("resolveActivity", id,
                IF result = "none" THEN "TypeError" ELSE "none")
  /\ lastExternal' = NoExternal
  /\ UNCHANGED <<commands, completed, cancelled, isReplaying>>
  /\ UNCHANGED <<workerVars, lastCall, lastReturn, bundlerVars>>

CancelWorkflow ==
  /\ cancelled' = TRUE
  /\ lastJob' = [job |-> "cancelWorkflow", id |-> NoId, threw |-> "none",
                 resolved |-> NoId]
  /\ lastExternal' = NoExternal
  /\ UNCHANGED <<completions, commands, completed, isReplaying>>
  /\ UNCHANGED <<workerVars, lastCall, lastReturn, bundlerVars>>

NotifyHasChange ==
  /\ lastJob' = [job |-> "notifyHasChange", id |-> NoId, threw |-> "Error",
                 resolved |-> NoId]
  /\ lastExternal' = NoExternal
  /\ UNCHANGED <<completions, commands, completed, cancelled, isReplaying>>
  /\ UNCHANGED <<workerVars, lastCall, lastReturn, bundlerVars>>

RemoveFromCache ==
  /\ lastJob' = [job |-> "removeFromCache", id |-> NoId,
                 threw |-> "IllegalStateError", resolved |-> NoId]
  /\ lastExternal' = NoExternal
  /\ UNCHANGED <<completions, commands, completed, cancelled, isReplaying>>
  /\ UNCHANGED <<workerVars, lastCall, lastReturn, bundlerVars>>

\* ------------------------------------------------- injected host functions

\* The handle's info follows the activation being applied.
Activate(replaying) ==
  /\ isReplaying' = replaying
  /\ lastJob' = NoJob
  /\ lastExternal' = NoExternal
  /\ UNCHANGED <<completions, commands, completed, cancelled>>
  /\ UNCHANGED <<workerVars, lastCall, lastReturn, bundlerVars>>

\* The guard that skips every call made during replay, whatever its flag.
DependencySkippedOnEveryReplay(callDuringReplay, replaying) == replaying

DependencySkipped(callDuringReplay, replaying) ==
  ~callDuringReplay /\ replaying

ConsoleLogSkipped(replaying) == replaying

CallDependency(callDuringReplay) ==
  /\ lastExternal' =
       [fn |-> "dependency", callDuringReplay |-> callDuringReplay,
        replaying |-> isReplaying,
        invoked |-> ~DependencySkipped(callDuringReplay, isReplaying)]
  /\ lastJob' = NoJob
  /\ UNCHANGED <<completions, commands, completed, cancelled, isReplaying>>
  /\ UNCHANGED <<workerVars, lastCall, lastReturn, bundlerVars>>

CallConsoleLog ==
  /\ lastExternal' =
       [fn |-> "console.log", callDuringReplay |-> FALSE,
        replaying |-> isReplaying,
        invoked |-> ~ConsoleLogSkipped(isReplaying)]
  /\ lastJob' = NoJob
  /\ UNCHANGED <<completions, commands, completed, cancelled, isReplaying>>
  /\ UNCHANGED <<workerVars, lastCall, lastReturn, bundlerVars>>

\* A sandbox in the middle of a run: some completions pending, some commands
\* buffered, the workflow possibly completed or cancelled; the worker has not
\* been started.
SandboxInit ==
  /\ WorkerInit
  /\ actBudget = 0
  /\ completions \in SUBSET Seqs
  /\ commands \in 0..MaxCommands
  /\ completed \in BOOLEAN
  /\ cancelled \in BOOLEAN
  /\ isReplaying \in BOOLEAN
  /\ lastJob = NoJob
  /\ lastExternal = NoExternal
  /\ BundlerIdle

SandboxNext ==
  \/ \E id \in {NoId} \cup Seqs : FireTimer(id)
  \/ \E id \in {NoId} \cup Seqs, result \in ActivityResults :
       ResolveActivity(id, result)
  \/ CancelWorkflow
  \/ NotifyHasChange
  \/ RemoveFromCache
  \/ \E replaying \in BOOLEAN : Activate(replaying)
  \/ \E callDuringReplay \in BOOLEAN : CallDependency(callDuringReplay)
  \/ CallConsoleLog

SandboxSpec == SandboxInit /\ [][SandboxNext]_vars

\* -------------------------------------------------------- activity stubs

\* Text is a sequence of characters.  BS, QT and LF are the backslash, the
\* double quote and the line feed; every other character stands for itself.
BS == "\\"
QT == "\""
LF == "\n"
NameChars == {"a", "n", BS, QT, LF}

\* The names of the files resolveActivities may find in activitiesPath.
ImportNames == UNION {[1..n -> NameChars] : n \in 1..MaxNameLen}

\* `@activities/${importName}`
Specifier(importName) == <<"@activities/">> \o importName

\* JSON.stringify of one character of a string.
EscapeChar(c) ==
  IF c = QT THEN <<BS, QT>>
  ELSE IF c = BS THEN <<BS, BS>>
  ELSE IF c = LF THEN <<BS, "n">>
  ELSE <<c>>

RECURSIVE EscapeAll(_)
EscapeAll(str) ==
  IF str = <<>> THEN <<>> ELSE EscapeChar(Head(str)) \o EscapeAll(Tail(str))

\* JSON.stringify(str) for a string.
StringifyString(str) == <<QT>> \o EscapeAll(str) \o <<QT>>

\* JSON.stringify([specifier, k])
StringifyPair(specifier, k) ==
  <<"[">> \o StringifyString(specifier) \o <<",">> \o StringifyString(<<k>>)
    \o <<"]">>

\* A tag that hands the interpolated text on as it is.
DedentVerbatim(text) == text

\* The dedent tag on the interpolated text: after the interpolation every
\* backslash followed by n becomes a line feed (result.replace(/\\n/g, "\n")).
RECURSIVE Dedent(_)
Dedent(text) ==
  IF Len(text) < 2 THEN text
  ELSE IF text[1] = BS /\ text[2] = "n"
    THEN <<LF>> \o Dedent(SubSeq(text, 3, Len(text)))
  ELSE <<text[1]>> \o Dedent(Tail(text))

Malformed == [ok |-> FALSE, value |-> <<>>, next |-> 0]

\* The characters of a string from position i up to its closing quote, read
\* as JSON.parse reads them (json) or as the script compiler reads a string
\* literal: a backslash before a line feed continues the line, a backslash
\* before any other character that is no escape stands for that character.
RECURSIVE ReadChars(_, _, _, _)
ReadChars(text, i, acc, json) ==
  IF i > Len(text) THEN Malformed
  ELSE IF text[i] = QT THEN [ok |-> TRUE, value |-> acc, next |-> i + 1]
  ELSE IF text[i] = LF THEN Malformed
  ELSE IF text[i] = BS
    THEN IF i + 1 > Len(text) THEN Malformed
         ELSE LET c == text[i + 1]
              IN IF c \in {QT, BS}
                   THEN ReadChars(text, i + 2, Append(acc, c), json)
                 ELSE IF c = "n"
                   THEN ReadChars(text, i + 2, Append(acc, LF), json)
                 ELSE IF json THEN Malformed
                 ELSE IF c = LF THEN ReadChars(text, i + 2, acc, json)
                 ELSE ReadChars(text, i + 2, Append(acc, c), json)
  ELSE ReadChars(text, i + 1, Append(acc, text[i]), json)

ReadString(text, i, json) ==
  IF i > Len(text) \/ text[i] # QT THEN Malformed
  ELSE ReadChars(text, i + 1, <<>>, json)

\* The value of `${k}.type = ${type}` when the stub module is evaluated.
EvalStringLiteral(text) ==
  LET r == ReadString(text, 1, FALSE)
  IN IF r.ok /\ r.next = Len(text) + 1
       THEN [ok |-> TRUE, value |-> r.value]
       ELSE [ok |-> FALSE, value |-> <<>>]

Expect(text, i, c) == i <= Len(text) /\ text[i] = c

\* JSON.parse(start.activityType), destructured as [path, fnName].
ParsePair(text) ==
  LET a == ReadString(text, 2, TRUE)
      b == ReadString(text, a.next + 1, TRUE)
  IN IF /\ Expect(text, 1, "[")
        /\ a.ok
        /\ Expect(text, a.next, ",")
        /\ b.ok
        /\ Expect(text, b.next, "]")
        /\ b.next = Len(text)
       THEN [ok |-> TRUE, path |-> a.value, fnName |-> b.value]
       ELSE [ok |-> FALSE, path |-> <<>>, fnName |-> <<>>]

\* The stub written for export k of the module: its name and the literal
\* that the generated code assigns to its type.
Stub(specifier, k) ==
  [name |-> k,
   literal |-> Dedent(StringifyString(StringifyPair(specifier, k)))]

\* registerActivities: one file per module, one stub per function-valued export.
RegisterActivities ==
  /\ vol = {}
  /\ activities.specifier # <<>>
  /\ vol' = {[path |-> activities.specifier \o <<".js">>,
              stubs |-> {Stub(activities.specifier, k) :
                           k \in {x \in ExportNames :
                                    activities.module[x] = "function"}}]}
  /\ UNCHANGED <<activities, resolution>>
  /\ UNCHANGED <<workerVars, lastCall, lastReturn, activatorVars, dependencyVars>>

\* The start of the activity step: the activity type is parsed and looked up
\* in the resolved activities.
ResolveActivityType(activityType) ==
  LET p == ParsePair(activityType)
      known == p.path = activities.specifier
      isName == Len(p.fnName) = 1 /\ p.fnName[1] \in ExportNames
  IN IF ~p.ok
       THEN [NoResolution EXCEPT !.activityType = activityType,
                                 !.outcome = "SyntaxError"]
     ELSE IF ~known
       THEN [activityType |-> activityType, outcome |-> "Activity module not found",
             path |-> p.path, fnName |-> p.fnName]
     ELSE IF ~isName \/ activities.module[p.fnName[1]] # "function"
       THEN [activityType |-> activityType, outcome |-> "Activity function not found",
             path |-> p.path, fnName |-> p.fnName]
     ELSE [activityType |-> activityType, outcome |-> "function",
           path |-> p.path, fnName |-> p.fnName]

\* A start task arrives for an activity scheduled through the stub: its
\* activity type is the type of the stub.
StubActivityStart(file, stub) ==
  /\ file \in vol
  /\ stub \in file.stubs
  /\ EvalStringLiteral(stub.literal).ok
  /\ resolution' = ResolveActivityType(EvalStringLiteral(stub.literal).value)
  /\ UNCHANGED <<activities, vol>>
  /\ UNCHANGED <<workerVars, lastCall, lastReturn, activatorVars, dependencyVars>>

\* The activities found at creation: one module under a file of any name.
BundlerInit ==
  /\ WorkerInit
  /\ actBudget = 0
  /\ SandboxIdle
  /\ \E importName \in ImportNames, module \in [ExportNames -> ExportKinds] :
       activities = [specifier |-> Specifier(importName), module |-> module]
  /\ vol = {}
  /\ resolution = NoResolution

BundlerNext ==
  \/ RegisterActivities
  \/ \E file \in vol : \E stub \in file.stubs : StubActivityStart(file, stub)

BundlerSpec == BundlerInit /\ [][BundlerNext]_vars

\* ------------------------------------------------------------------ claims

\* C1: for every run, at most one processing step is running at any time, and
\* a running step of a polled activation never has an earlier polled
\* activation of the same run waiting behind it.
SerialPerRun ==
  \A r \in Runs :
    /\ Cardinality(StepsOf(wfSteps, r)) <= 1
    /\ \A s \in StepsOf(wfSteps, r) :
         \A i \in DOMAIN wfGroups[r].queue :
           LET q == wfGroups[r].queue[i]
           IN (s.act.id > 0 /\ q.id > 0) => q.id > s.act.id

\* A step of a run is running while a second activation of the run waits, in
\* a group that was created after an earlier group of the run was closed.
SerialPerRunWitness ==
  \E r \in Runs :
    /\ StepsOf(wfSteps, r) # {}
    /\ wfGroups[r].queue # <<>>
    /\ \E s \in StepsOf(wfSteps, r) : s.act.id > 1

\* C2: after shutdown() the states STOPPING, DRAINING, DRAINED, STOPPED are
\* visited in that order: one of them is entered only when all of its
\* predecessors and none of its successors (nor itself) have been visited,
\* and it is left only for its successor or for FAILED.
ShutdownChain == <<"STOPPING", "DRAINING", "DRAINED", "STOPPED">>

ChainRank(s) == CHOOSE i \in DOMAIN ShutdownChain : ShutdownChain[i] = s

InChain(s) == \E i \in DOMAIN ShutdownChain : ShutdownChain[i] = s

ShutdownOrder ==
  [][state' # state =>
       /\ InChain(state') =>
            \A i \in DOMAIN ShutdownChain :
              (i < ChainRank(state')) <=> (ShutdownChain[i] \in statesSeen)
       /\ InChain(state) =>
            \/ state' = "FAILED"
            \/ InChain(state') /\ ChainRank(state') = ChainRank(state) + 1]_vars

\* The whole chain was visited and run() resolved.
ShutdownOrderWitness ==
  /\ state = "STOPPED"
  /\ runStatus = "resolved"
  /\ {"STOPPING", "DRAINING", "DRAINED"} \subseteq statesSeen

\* C3: once the state is STOPPED or FAILED it never changes again.
TerminalStates ==
  [][(state \in {"STOPPED", "FAILED"}) => state' = state]_vars

\* C4: every state change is one of the listed transitions.
LegalTransitions ==
  { <<"INITIALIZED", "RUNNING">>, <<"RUNNING", "SUSPENDED">>,
    <<"SUSPENDED", "RUNNING">>, <<"RUNNING", "STOPPING">>,
    <<"SUSPENDED", "STOPPING">>, <<"STOPPING", "DRAINING">>,
    <<"DRAINING", "DRAINED">>, <<"DRAINED", "STOPPED">> }
  \cup {<<s, "FAILED">> : s \in States}

OnlyLegalTransitions ==
  [][state' # state => <<state, state'>> \in LegalTransitions]_vars

\* C5: the in-flight activation gauge and the in-flight activity gauge are
\* never negative.
GaugesNonNegative ==
  /\ numInFlightActivations >= 0
  /\ numInFlightActivities >= 0

\* C6: when the state is DRAINED both in-flight gauges are 0.
DrainedGaugesZero ==
  state = "DRAINED" =>
    /\ numInFlightActivations = 0
    /\ numInFlightActivities = 0

\* C7: the step that processes an activation with an empty job list makes the
\* worker fail: the state becomes FAILED and run() is about to reject.
EmptyActivationStep ==
  \E s \in wfSteps : s.act.jobs = <<>> /\ s \notin wfSteps'

EmptyActivationFatal ==
  [][EmptyActivationStep => state' = "FAILED" /\ runError' # "none"]_vars

\* C8: no poll is called while the state is SUSPENDED; a loop waits only
\* while the state is SUSPENDED and polls again in the step that leaves it.
WfPollCalled ==
  wfPoll' = "polling" /\ (wfPoll # "polling" \/ wfDelivered' # wfDelivered)

ActPollCalled ==
  actPoll' = "polling" /\ (actPoll # "polling" \/ actDelivered' # actDelivered)

NoPollWhileSuspended ==
  [][/\ (WfPollCalled \/ ActPollCalled) => state' # "SUSPENDED"
     /\ (wfPoll' = "waiting" \/ actPoll' = "waiting") => state' = "SUSPENDED"
     /\ (state = "SUSPENDED" /\ state' \in {"RUNNING", "STOPPING"}) =>
          /\ wfPoll = "waiting" => wfPoll' = "polling"
          /\ actPoll = "waiting" => actPoll' = "polling"]_vars

\* Suspended with one loop waiting and the other loop's poll still in flight.
NoPollWhileSuspendedWitness ==
  /\ state = "SUSPENDED"
  /\ wfPoll = "waiting"
  /\ actPoll = "polling"

\* C9: when the grace timer fires, which it does only before DRAINED was
\* reached, the state becomes FAILED, completeShutdown is called and run()
\* rejects with GracefulShutdownPeriodExpiredError.
GraceExpiryFails ==
  [][/\ (timer = "armed" /\ timer' = "fired") =>
          /\ ~Seen("DRAINED")
          /\ state' = "FAILED"
          /\ runStatus' = "finalizing"
          /\ runError' = "GracefulShutdownPeriodExpiredError"
          /\ completeShutdownCalled'
     /\ (timer = "fired" /\ runStatus = "finalizing" /\ runStatus' # runStatus) =>
          /\ runStatus' = "rejected"
          /\ runError' = "GracefulShutdownPeriodExpiredError"
          /\ completeShutdownCalled']_vars

\* The timer fired and run() rejected with the grace-period error.
GraceExpiryWitness ==
  /\ timer = "fired"
  /\ runStatus = "rejected"
  /\ runError = "GracefulShutdownPeriodExpiredError"
  /\ completeShutdownCalled

\* C10: run() resolves only in STOPPED and rejects only in FAILED with the
\* error that failed the worker; when it settles, completeShutdown was called
\* and the pool destroyed.
RunSettlement ==
  [][(runStatus' # runStatus /\ runStatus' \in {"resolved", "rejected"}) =>
       /\ runStatus' = "resolved" => state' = "STOPPED" /\ runError' = "none"
       /\ runStatus' = "rejected" => state' = "FAILED" /\ runError' # "none"
       /\ completeShutdownCalled' /\ poolDestroyed']_vars

\* C11: run() called in INITIALIZED returns a pending promise and sets the
\* state to RUNNING; called in any other state it fails with
\* IllegalStateError and changes nothing of the worker.
RunLegality ==
  [][lastCall'.method = "run" =>
       IF state = "INITIALIZED"
         THEN lastCall' = Returned("run") /\ state' = "RUNNING"
         ELSE lastCall' = Threw("run") /\ UNCHANGED workerVars]_vars

\* A second run() after the first one resolved in STOPPED was refused.
RunLegalityWitness ==
  /\ lastCall = Threw("run")
  /\ state = "STOPPED"
  /\ runStatus = "resolved"

\* C12: suspendPolling() returns only in RUNNING, making the state SUSPENDED,
\* and resumePolling() returns only in SUSPENDED, making the state RUNNING; in
\* every other state they throw IllegalStateError and change nothing.
SuspendResumeLegality ==
  [][/\ lastCall'.method = "suspendPolling" =>
          IF state = "RUNNING"
            THEN lastCall' = Returned("suspendPolling") /\ state' = "SUSPENDED"
            ELSE lastCall' = Threw("suspendPolling") /\ UNCHANGED workerVars
     /\ lastCall'.method = "resumePolling" =>
          IF state = "SUSPENDED"
            THEN lastCall' = Returned("resumePolling") /\ state' = "RUNNING"
            ELSE lastCall' = Threw("resumePolling") /\ UNCHANGED workerVars]_vars

\* resumePolling() was refused in RUNNING after an earlier suspension.
SuspendResumeLegalityWitness ==
  /\ lastCall = Threw("resumePolling")
  /\ state = "RUNNING"
  /\ Seen("SUSPENDED")

\* C13: shutdown() returns only in RUNNING or SUSPENDED, where it sets
\* STOPPING and asks the bridge to shut down; in every other state it throws
\* IllegalStateError and changes nothing.  The bridge is asked only by
\* shutdown() and only once, and the state becomes DRAINING only in the step
\* in which the bridge acknowledges.
ShutdownLegality ==
  [][/\ lastCall'.method = "shutdown" =>
          IF state \in {"RUNNING", "SUSPENDED"}
            THEN /\ lastCall' = Returned("shutdown")
                 /\ state' = "STOPPING"
                 /\ shutdownReq = "none" /\ shutdownReq' = "pending"
            ELSE lastCall' = Threw("shutdown") /\ UNCHANGED workerVars
     /\ (shutdownReq' = "pending" /\ shutdownReq # "pending") =>
          lastCall' = Returned("shutdown") /\ shutdownReq = "none"
     /\ (state' = "DRAINING" /\ state # "DRAINING") =>
          shutdownReq = "pending" /\ shutdownReq' = "acked"]_vars

\* A second shutdown() was refused after the bridge acknowledged the first.
ShutdownLegalityWitness ==
  /\ lastCall = Threw("shutdown")
  /\ shutdownReq = "acked"
  /\ state = "DRAINING"

\* C14: a cancel task polled for a token whose group holds no activity adds
\* no completion, creates no activity and leaves the in-flight activity
\* gauge as it was.
CancelUnknownToken ==
  [][(lastReturn'.variant = "cancel"
        /\ actGroups[lastReturn'.token].handle = "none") =>
       /\ actCompletions' = actCompletions
       /\ actGroups'[lastReturn'.token].handle = "none"
       /\ ~actGroups'[lastReturn'.token].running
       /\ numInFlightActivities' = numInFlightActivities
       /\ state' = state]_vars

\* A cancel was polled for a token whose activity had already completed.
CancelUnknownTokenWitness ==
  /\ lastReturn.variant = "cancel"
  /\ actGroups[lastReturn.token].handle = "none"
  /\ \E c \in actCompletions : c.token = lastReturn.token /\ c.result = "completed"

\* C15: a start task that names an unregistered module, or a function missing
\* from its module, adds exactly one completion for its token, a failure with
\* the module-not-found (function-not-found) message, creates no activity,
\* runs no user code and does not fail the worker.
UnresolvedStartMessage(variant) ==
  IF variant = "start:nomodule" THEN "Activity module not found"
  ELSE "Activity function not found"

UnresolvedStartFails ==
  [][(lastReturn'.variant \in {"start:nomodule", "start:nofn"}
        /\ actGroups[lastReturn'.token].handle = "none") =>
       /\ \E c \in actCompletions' \ actCompletions :
            /\ actCompletions' = actCompletions \cup {c}
            /\ c.token = lastReturn'.token
            /\ c.result = "failed"
            /\ c.message = UnresolvedStartMessage(lastReturn'.variant)
       /\ actGroups'[lastReturn'.token].handle = "none"
       /\ ~actGroups'[lastReturn'.token].running
       /\ state' = state
       /\ runStatus' = "active"]_vars

\* The failure completion of a start with an unregistered module is on its
\* way to the bridge while the worker keeps running.
UnresolvedStartFailsWitness ==
  /\ lastReturn.variant = "start:nomodule"
  /\ state = "RUNNING"
  /\ \E c \in actCompletions :
       c.token = lastReturn.token /\ c.message = "Activity module not found"

\* C19: a start task polled for a token whose group holds an activity fails
\* the worker with IllegalStateError; a start polled after the token's
\* activity completed is accepted and starts a new activity.
DuplicateStartFatal ==
  [][/\ (lastReturn'.variant \notin {"none", "cancel"}
           /\ actGroups[lastReturn'.token].handle # "none") =>
          /\ state' = "FAILED"
          /\ runError' = "IllegalStateError"
          /\ runStatus' = "finalizing"
     /\ (lastReturn'.variant = "start:ok"
           /\ actGroups[lastReturn'.token].handle = "none") =>
          /\ state' = state
          /\ runStatus' = "active"
          /\ actGroups'[lastReturn'.token].handle = "live"
          /\ actGroups'[lastReturn'.token].running
     /\ (runStatus = "finalizing" /\ runStatus' # runStatus
           /\ runError = "IllegalStateError") =>
          runStatus' = "rejected"]_vars

\* run() rejected after a duplicate start.
DuplicateStartFatalWitness ==
  /\ runStatus = "rejected"
  /\ runError = "IllegalStateError"
  /\ Seen("FAILED")

\* C18: a poll call that rejects with ShutdownError ends its own poll loop
\* and nothing else: the state and run() stay as they are.  A workflow poll
\* that rejects with WorkflowError fails nothing and the loop goes on.  A poll
\* call that rejects with any other error makes the state FAILED and run()
\* reject with that error.
PollErrorHandling ==
  [][/\ (lastReturn'.call = "poll" /\ lastReturn'.error = "ShutdownError") =>
          /\ state' = state
          /\ runStatus' = "active"
          /\ runError' = "none"
          /\ IF lastReturn'.loop = "workflow"
               THEN wfPoll' = "done" /\ actPoll' = actPoll
               ELSE actPoll' = "done" /\ wfPoll' = wfPoll
     /\ (lastReturn'.call = "poll" /\ lastReturn'.error = "WorkflowError") =>
          /\ state' = state
          /\ runStatus' = "active"
          /\ runError' = "none"
          /\ wfPoll' \in {"polling", "waiting"}
     /\ (lastReturn'.call = "poll" /\ lastReturn'.error = "PollError") =>
          /\ state' = "FAILED"
          /\ runError' = "PollError"
          /\ runStatus' = "finalizing"
     /\ (runStatus = "finalizing" /\ runStatus' # runStatus
           /\ runError = "PollError") =>
          runStatus' = "rejected" /\ runError' = "PollError"]_vars

\* Both poll loops were ended by ShutdownError and the worker has not failed.
PollErrorHandlingWitness ==
  /\ lastReturn.call = "poll"
  /\ lastReturn.error = "ShutdownError"
  /\ wfPoll = "done"
  /\ actPoll = "done"
  /\ runStatus = "active"
  /\ ~Seen("FAILED")

\* The step is the return of a completeWorkflowActivation call that rejected
\* with WorkflowError.
CompletionWorkflowError ==
  /\ lastReturn'.call = "complete"
  /\ lastReturn'.loop = "workflow"
  /\ lastReturn'.error = "WorkflowError"

\* The step hands an eviction of the run of the rejected completion to the
\* run's group, which runs it at once or keeps it behind the running step, and
\* touches no other run.
EvictionInjected ==
  LET r == lastReturn'.token
  IN /\ numInFlightActivations' = numInFlightActivations + 1
     /\ \/ \E s \in wfSteps' \ wfSteps : s.run = r /\ s.act = FeedbackEviction
        \/ wfGroups'[r].queue = Append(wfGroups[r].queue, FeedbackEviction)
     /\ \A q \in Runs \ {r} :
          /\ wfGroups'[q] = wfGroups[q]
          /\ StepsOf(wfSteps', q) = StepsOf(wfSteps, q)

\* Any other rejection of completeWorkflowActivation fails the worker.
CompletionErrorFatal ==
  (lastReturn'.call = "complete" /\ lastReturn'.loop = "workflow"
     /\ lastReturn'.error = "CompleteError") =>
    /\ state' = "FAILED"
    /\ runError' = "CompleteError"
    /\ runStatus' = "finalizing"

Arrived(r) ==
  IF wfGroups'[r].queue # <<>>
    THEN wfGroups'[r].queue[Len(wfGroups'[r].queue)]
    ELSE (CHOOSE s \in StepsOf(wfSteps', r) : TRUE).act

\* C20: when an activation with the single job removeFromCache arrives for a
\* run that has no group, one new group with no handle is opened, the only
\* step it runs is an eviction-only one, no workflow instance is created and
\* no completion is emitted; when that step returns, still no completion is
\* emitted and the group is closed again with nothing left running.
EvictionReopensGroup ==
  [][\A r \in Runs :
       /\ (~wfGroups[r].live /\ wfGroups'[r].live
             /\ Arrived(r).jobs = <<"evict">>) =>
            /\ wfGroups'[r].handle = "none"
            /\ \E s \in StepsOf(wfSteps', r) :
                 /\ StepsOf(wfSteps', r) = {s}
                 /\ s.act.jobs = <<"evict">>
                 /\ ~s.async
            /\ Len(wfOrder') = Len(wfOrder) + 1
            /\ Len(RemoveRun(wfOrder', r)) = Len(wfOrder)
            /\ numRunningWorkflowInstances' = numRunningWorkflowInstances
            /\ wfCompletions' \subseteq wfCompletions
       /\ \A s \in StepsOf(wfSteps, r) \ wfSteps' :
            (s.act.jobs = <<"evict">> /\ wfGroups[r].handle = "none") =>
              /\ runStatus' = "active"
              /\ wfGroups'[r] = NoGroup
              /\ StepsOf(wfSteps', r) = {}
              /\ wfCompletions' \subseteq wfCompletions]_vars

\* The second activation polled for a run is an eviction that found the
\* run's first group closed and runs in a new group without a handle.
EvictionReopensGroupWitness ==
  \E r \in Runs :
    /\ wfGroups[r].live
    /\ wfGroups[r].handle = "none"
    /\ wfGroups[r].queue = <<>>
    /\ \E s \in StepsOf(wfSteps, r) :
         s.act.id = 2 /\ s.act.jobs = <<"evict">> /\ s.act.src = "poll"

\* The step that returned was given an activation with jobs other than
\* removeFromCache together with removeFromCache.
MixedEvictionReturned ==
  /\ lastReturn'.call = "step"
  /\ NonEviction(lastReturn'.act.jobs) # <<>>
  /\ Len(NonEviction(lastReturn'.act.jobs)) < Len(lastReturn'.act.jobs)

\* C21: when the step of a run with a live handle returns for an activation
\* that holds non-eviction jobs and removeFromCache, exactly one completion
\* is emitted for the activation, no earlier activation of the run is still
\* running or queued (their completions were emitted before), the group is
\* closed and the running-workflow-instances gauge is one lower.
MixedEvictionCompletes ==
  [][(MixedEvictionReturned /\ lastReturn'.workflow = "live") =>
       LET r == lastReturn'.token
           act == lastReturn'.act
       IN /\ \E c \in wfCompletions' \ wfCompletions :
               /\ wfCompletions' = wfCompletions \cup {c}
               /\ c.run = r
               /\ c.id = act.id
          /\ \A s \in StepsOf(wfSteps, r) : s.act = act
          /\ \A i \in DOMAIN wfGroups[r].queue :
               wfGroups[r].queue[i].id \notin 1..act.id
          /\ \A c \in wfCompletions : c.run = r => c.id < act.id
          /\ wfGroups'[r] = NoGroup
          /\ StepsOf(wfSteps', r) = {}
          /\ numRunningWorkflowInstances' = numRunningWorkflowInstances - 1]_vars

\* The second activation of a run, with another job and removeFromCache, was
\* activated on the handle the first one created: its completion is pending,
\* the group is closed.
MixedEvictionCompletesWitness ==
  /\ lastReturn.call = "step"
  /\ lastReturn.workflow = "live"
  /\ lastReturn.act.jobs = <<"other", "evict">>
  /\ lastReturn.act.id = 2
  /\ lastReturn.out.completion = "ok"
  /\ ~wfGroups[lastReturn.token].live
  /\ \E c \in wfCompletions : c.run = lastReturn.token /\ c.id = 2 /\ c.kind = "ok"

CloseDisposesHandle ==
  [][(/\ lastReturn'.call = "step"
      /\ lastReturn'.out.close
      /\ Len(NonEviction(lastReturn'.act.jobs)) < Len(lastReturn'.act.jobs)
      /\ (lastReturn'.workflow = "live" \/ lastReturn'.out.state = "live")) =>
       lastReturn'.out.disposes >= 1]_vars

\* C24: when a processing step raised an exception (creating the handle,
\* injecting dependencies, activating, or before), the handle the group held
\* or the step had created is disposed, the step returns no handle, close =
\* true and a failed completion, which is handed to the bridge call; the
\* group is closed and the worker stays as it was.
StepExceptionEvicts ==
  [][(lastReturn'.call = "step" /\ lastReturn'.out.error # "none") =>
       LET r == lastReturn'.token
           out == lastReturn'.out
           had == \/ lastReturn'.workflow = "live"
                  \/ /\ CreatesWorkflow(lastReturn'.workflow, lastReturn'.act.jobs)
                     /\ lastReturn'.sandbox = "throw"
       IN /\ out.state = "none"
          /\ out.close
          /\ out.completion = "failed"
          /\ out.disposes >= (IF had THEN 1 ELSE 0)
          /\ (~had => out.disposes = 0)
          /\ [run |-> r, id |-> lastReturn'.act.id, kind |-> "failed"]
               \in wfCompletions' \ wfCompletions
          /\ wfGroups'[r] = NoGroup
          /\ StepsOf(wfSteps', r) = {}
          /\ runStatus' = "active"
          /\ state' = state
          /\ runError' = "none"]_vars

\* workflow.activate threw for a run with a live handle: the handle was
\* disposed, the failed completion is pending and the group is closed.
StepExceptionEvictsWitness ==
  /\ lastReturn.call = "step"
  /\ lastReturn.workflow = "live"
  /\ lastReturn.sandbox = "throw"
  /\ lastReturn.out.disposes = 1
  /\ ~wfGroups[lastReturn.token].live
  /\ state = "RUNNING"
  /\ \E c \in wfCompletions : c.run = lastReturn.token /\ c.kind = "failed"

\* C25 as stated: the feedback channel is open while the state is DRAINING,
\* so a completion rejected with WorkflowError in DRAINING hands an eviction
\* of its run to the workflow pipeline.
FeedbackOpenWhileDraining ==
  [][(CompletionWorkflowError /\ state = "DRAINING") => EvictionInjected]_vars

\* C25: the feedback channel is open in RUNNING, SUSPENDED and STOPPING, where
\* a completion rejected with WorkflowError hands an eviction of its run to
\* the workflow pipeline, and it is closed from the moment the state becomes
\* DRAINING: a completion rejected with WorkflowError in DRAINING leaves the
\* workflow pipeline as it was.
FeedbackClosesOnDraining ==
  [][CompletionWorkflowError =>
       IF state \in {"RUNNING", "SUSPENDED", "STOPPING"}
         THEN EvictionInjected
         ELSE /\ state = "DRAINING"
              /\ UNCHANGED <<wfGroups, wfOrder, wfSteps, numInFlightActivations,
                             numRunningWorkflowInstances>>]_vars

\* A completion was rejected with WorkflowError while the state was DRAINING
\* and no eviction of its run was handed to the pipeline.
FeedbackClosesOnDrainingWitness ==
  /\ lastReturn.call = "complete"
  /\ lastReturn.loop = "workflow"
  /\ lastReturn.error = "WorkflowError"
  /\ state = "DRAINING"
  /\ runStatus = "active"
  /\ \A s \in wfSteps : s.run = lastReturn.token => s.act # FeedbackEviction
  /\ \A i \in DOMAIN wfGroups[lastReturn.token].queue :
       wfGroups[lastReturn.token].queue[i] # FeedbackEviction

\* The group of run r holds the eviction of workflowsIdle$, running or queued.
HoldsIdleEviction(groups, steps, r) ==
  \/ \E s \in StepsOf(steps, r) : s.act = IdleEviction
  \/ \E i \in DOMAIN groups[r].queue : groups[r].queue[i] = IdleEviction

\* C26, in every step: an eviction of workflowsIdle$ enters a group only in
\* a turn in which the state is DRAINING and the in-flight gauge was
\* published as 0 (it was 0 before, or the step that returned lowered it to
\* 0), and only into a group that has not had one; the step that processes
\* it disposes the handle of the group and closes the group.
IdleSweepStep ==
  [][\A r \in Runs :
       /\ (HoldsIdleEviction(wfGroups', wfSteps', r)
             /\ ~HoldsIdleEviction(wfGroups, wfSteps, r)) =>
            /\ runStatus' = "active"
            /\ state' = "DRAINING"
            /\ \/ numInFlightActivations = 0
               \/ lastReturn'.call = "step" /\ numInFlightActivations = 1
            /\ wfGroups[r].live => wfGroups[r].idle
            /\ ~wfGroups'[r].idle
       /\ (lastReturn'.call = "step" /\ lastReturn'.token = r
             /\ lastReturn'.act = IdleEviction) =>
            /\ lastReturn'.out.disposes = Dispose(lastReturn'.workflow)
            /\ lastReturn'.out.completion = "none"
            /\ wfGroups'[r] = NoGroup]_vars

\* C26, in every state: a group holds at most one eviction of workflowsIdle$
\* and has none to come once it holds one; while the worker is DRAINING with
\* nothing in flight, no live group is left that has not been given its
\* eviction.
IdleSweepOncePerGroup ==
  \A r \in Runs :
    /\ Cardinality({s \in StepsOf(wfSteps, r) : s.act = IdleEviction})
         + Cardinality({i \in DOMAIN wfGroups[r].queue :
                          wfGroups[r].queue[i] = IdleEviction}) <= 1
    /\ HoldsIdleEviction(wfGroups, wfSteps, r) => ~wfGroups[r].idle
    /\ (runStatus = "active" /\ state = "DRAINING"
          /\ numInFlightActivations = 0 /\ wfGroups[r].live) =>
         ~wfGroups[r].idle

\* C26: the two parts together.
IdleSweep == IdleSweepStep /\ []IdleSweepOncePerGroup

\* Two groups with live handles were idle when the worker became DRAINING;
\* the first was evicted and closed, and its return handed the second its
\* eviction.
IdleSweepWitness ==
  /\ state = "DRAINING"
  /\ runStatus = "active"
  /\ lastReturn.call = "step"
  /\ lastReturn.act = IdleEviction
  /\ lastReturn.workflow = "live"
  /\ ~wfGroups[lastReturn.token].live
  /\ \E r \in Runs \ {lastReturn.token} :
       /\ wfGroups[r].live
       /\ wfGroups[r].handle = "live"
       /\ \E s \in StepsOf(wfSteps, r) : s.act = IdleEviction

\* The states in which the switch of the poll loop calls poll.
PollingStates == {"RUNNING", "STOPPING", "DRAINING"}

\* C27: the switch of the poll loop polls in RUNNING, STOPPING and DRAINING,
\* waits in SUSPENDED and ends the loop in every other state.  A loop calls
\* poll only when the state it inspects is one of the three; a loop that
\* delivered a poll result does next what the switch says for the current
\* state; a loop that waited does, when the state leaves SUSPENDED, what the
\* switch says for the new state; in INITIALIZED, DRAINED, STOPPED and FAILED
\* no loop polls or waits; and a poll in flight when the state becomes
\* STOPPING stays in flight.
PollLoopSwitch ==
  [][/\ \A st \in States :
          PollGate(st) = (IF st \in PollingStates THEN "polling"
                          ELSE IF st = "SUSPENDED" THEN "waiting" ELSE "error")
     /\ WfPollCalled => state' \in PollingStates
     /\ ActPollCalled => state' \in PollingStates
     /\ (runStatus' = "active" /\ wfDelivered' # wfDelivered) =>
          wfPoll' = PollGate(state')
     /\ (runStatus' = "active" /\ actDelivered' # actDelivered) =>
          actPoll' = PollGate(state')
     /\ (state = "SUSPENDED" /\ state' # "SUSPENDED") =>
          /\ wfPoll = "waiting" =>
               wfPoll' = (IF state' \in PollingStates THEN "polling" ELSE "done")
          /\ actPoll = "waiting" =>
               actPoll' = (IF state' \in PollingStates THEN "polling" ELSE "done")
     /\ state' \in {"INITIALIZED", "DRAINED", "STOPPED", "FAILED"} =>
          /\ wfPoll' \notin {"polling", "waiting"}
          /\ actPoll' \notin {"polling", "waiting"}
     /\ (state # "STOPPING" /\ state' = "STOPPING") =>
          /\ wfPoll = "polling" => (wfPoll' = "polling" /\ wfBudget' = wfBudget)
          /\ actPoll = "polling" => (actPoll' = "polling" /\ actBudget' = actBudget)]_vars

\* shutdown() was called while the first workflow poll and a later activity
\* poll were in flight: both are still outstanding in STOPPING.
PollLoopSwitchWitness ==
  /\ state = "STOPPING"
  /\ lastCall = Returned("shutdown")
  /\ wfPoll = "polling"
  /\ actPoll = "polling"
  /\ actDelivered > 0
  /\ wfDelivered = [r \in Runs |-> 0]

\* The activation polled last for run r is in the group of r, running or queued.
InGroup(groups, steps, r, id) ==
  \/ \E s \in StepsOf(steps, r) : s.act.id = id /\ s.act.src \in {"poll", "pollerror"}
  \/ \E i \in DOMAIN groups[r].queue :
       groups[r].queue[i].id = id /\ groups[r].queue[i].src \in {"poll", "pollerror"}

\* C28: a loop calls poll only when it has no poll outstanding or in the step
\* in which its outstanding poll returned, and it takes one poll result per
\* step.  In the step in which a workflow poll returns an activation, the
\* activation is in the group of its run, counted in flight, when the loop
\* decides about the next poll; in the step in which an activity poll returns
\* a task, the task has reached the group of its token: its activity runs and
\* is counted, or its result is on the way to the bridge, or it is a cancel
\* the group has taken.
PollBackpressure ==
  [][/\ WfPollCalled => (wfPoll # "polling" \/ wfBudget' = wfBudget - 1)
     /\ ActPollCalled => (actPoll # "polling" \/ actBudget' = actBudget - 1)
     /\ \A r \in Runs :
          (runStatus' = "active" /\ wfDelivered'[r] # wfDelivered[r]) =>
            /\ wfPoll = "polling"
            /\ wfDelivered'[r] = wfDelivered[r] + 1
            /\ \A q \in Runs \ {r} : wfDelivered'[q] = wfDelivered[q]
            /\ wfGroups'[r].live
            /\ InGroup(wfGroups', wfSteps', r, wfDelivered'[r])
            /\ ~InGroup(wfGroups, wfSteps, r, wfDelivered'[r])
            /\ numInFlightActivations' > numInFlightActivations
     /\ (runStatus' = "active" /\ actDelivered' # actDelivered) =>
          LET t == lastReturn'.token
          IN /\ actPoll = "polling"
             /\ actDelivered' = actDelivered + 1
             /\ lastReturn'.call = "poll"
             /\ \/ /\ actGroups'[t].running
                   /\ actGroups'[t].id = actDelivered'
                   /\ numInFlightActivities' = numInFlightActivities + 1
                \/ \E c \in actCompletions' \ actCompletions :
                     c.token = t /\ c.id = actDelivered'
                \/ lastReturn'.variant = "cancel" /\ actGroups'[t].live]_vars

\* The second activation of a run was polled while the step of the first
\* was running: it waits in the group and the loop polls again.
PollBackpressureWitness ==
  \E r \in Runs :
    /\ wfDelivered[r] = 2
    /\ wfGroups[r].queue # <<>>
    /\ wfGroups[r].queue[1].id = 2
    /\ \E s \in StepsOf(wfSteps, r) : s.act.id = 1
    /\ numInFlightActivations = 2
    /\ wfPoll = "polling"

\* C29: the workflow groups with a step running and the activity groups
\* with an activity running are never more than the two options allow.
ConcurrentGroupsBounded ==
  /\ Cardinality({r \in Runs : StepsOf(wfSteps, r) # {}})
       <= maxConcurrentWorkflowTaskExecutions
  /\ Cardinality({t \in Tokens : actGroups[t].running})
       <= maxConcurrentActivityTaskExecutions

\* C30, in every step: a cancel polled for a token whose activity runs
\* marks the activity cancelled and emits no completion, the activity keeps
\* running and the gauge its value; when the run of a started activity ends,
\* one completion (completed, failed or cancelled) of that start is emitted,
\* the group is closed and the gauge is one lower; and a completion for a
\* token is emitted by nothing but the end of its run or a start that could
\* not be resolved.
OneCompletionPerStartStep ==
  [][\A t \in Tokens :
       /\ (lastReturn'.call = "poll" /\ lastReturn'.token = t
             /\ lastReturn'.variant = "cancel" /\ actGroups[t].handle = "live") =>
            /\ actCompletions' = actCompletions
            /\ actGroups'[t] = [actGroups[t] EXCEPT !.cancelled = TRUE]
            /\ actGroups'[t].running
            /\ numInFlightActivities' = numInFlightActivities
       /\ (runStatus' = "active" /\ actGroups[t].running
             /\ ~actGroups'[t].running) =>
            /\ \E c \in actCompletions' \ actCompletions :
                 /\ actCompletions' = actCompletions \cup {c}
                 /\ c.token = t
                 /\ c.id = actGroups[t].id
                 /\ c.result \in {"completed", "failed", "cancelled"}
                 /\ c.message = "none"
            /\ actGroups'[t] = NoActGroup
            /\ numInFlightActivities' = numInFlightActivities - 1
       /\ \A c \in actCompletions' \ actCompletions :
            c.token = t =>
              \/ actGroups[t].running /\ c.id = actGroups[t].id
              \/ /\ lastReturn'.variant \in {"start:nomodule", "start:nofn",
                                               "start:badargs"}
                 /\ lastReturn'.token = t
                 /\ c.id = actDelivered']_vars

\* C30, in every state: the start an activity runs for has no completion
\* yet, and no start has two completions.
OneCompletionPerStartState ==
  /\ \A t \in Tokens : \A c \in actCompletions :
       (actGroups[t].running /\ c.token = t) => c.id # actGroups[t].id
  /\ \A c, d \in actCompletions : (c.token = d.token /\ c.id = d.id) => c = d

\* C30: the two parts together.
OneCompletionPerStart ==
  OneCompletionPerStartStep /\ []OneCompletionPerStartState

\* An activity that was started and then cancelled by a second task ended as
\* cancelled: its one completion is pending and its group is closed.
OneCompletionPerStartWitness ==
  \E t \in Tokens :
    /\ actDelivered = 2
    /\ actGroups[t] = NoActGroup
    /\ actGroups = [u \in Tokens |-> NoActGroup]
    /\ actCompletions = {[token |-> t, id |-> 1, result |-> "cancelled",
                          message |-> "none"]}
    /\ runStatus = "active"

\* Job lists of up to three jobs, of any kind and in any order.
AnyJobs ==
  LET Kinds == {"start", "badstart", "other", "evict"}
  IN UNION {[1..n -> Kinds] : n \in 0..3}

\* The job at place i of jobs is the first startWorkflow job of the list.
FirstStartAt(jobs, i) ==
  /\ jobs[i] \in {"start", "badstart"}
  /\ \A k \in 1..(i - 1) : jobs[k] \notin {"start", "badstart"}

\* The search finds the first startWorkflow job wherever it stands, and
\* nothing when the list holds none.
FindStartAnyPosition ==
  \A jobs \in AnyJobs :
    /\ FindStart(jobs) = "none" <=>
         \A i \in DOMAIN jobs : jobs[i] \notin {"start", "badstart"}
    /\ \A i \in DOMAIN jobs : FirstStartAt(jobs, i) => FindStart(jobs) = jobs[i]

ReplayGuard ==
  [][/\ \A replaying \in BOOLEAN :
          Activate(replaying) => isReplaying' = replaying
     /\ lastExternal'.fn = "dependency" =>
          /\ lastExternal'.replaying = isReplaying
          /\ lastExternal'.invoked <=>
               (isReplaying => lastExternal'.callDuringReplay)
     /\ lastExternal'.fn = "console.log" =>
          /\ lastExternal'.replaying = isReplaying
          /\ lastExternal'.invoked <=> ~isReplaying]_vars

ReplayGuardWitness ==
  /\ lastExternal.fn = "dependency"
  /\ lastExternal.replaying
  /\ lastExternal.callDuringReplay
  /\ lastExternal.invoked
  /\ isReplaying

\* C33 as stated: handling a notifyHasChange job raises no error and leaves
\* commands, completions and the completed and cancelled flags as they were.
NotifyHasChangeNoop ==
  [][lastJob'.job = "notifyHasChange" =>
       /\ lastJob'.threw = "none"
       /\ UNCHANGED <<commands, completions, completed, cancelled>>]_vars

\* C37 as stated: the running-workflow-instances gauge is never negative and
\* equals the number of live groups that hold a handle or whose running step
\* is creating one.
HoldsOrCreatesHandle(r) ==
  /\ wfGroups[r].live
  /\ \/ wfGroups[r].handle # "none"
     \/ \E s \in StepsOf(wfSteps, r) :
          CreatesWorkflow(wfGroups[r].handle, s.act.jobs)

RunningGaugeCountsHandles ==
  /\ numRunningWorkflowInstances >= 0
  /\ numRunningWorkflowInstances =
       Cardinality({r \in Runs : HoldsOrCreatesHandle(r)})

\* C38: the job list a step hands to workflow.activate is the activation's
\* list without its removeFromCache jobs and is not empty, so it holds no
\* removeFromCache job.
ActivateGetsNoEviction ==
  lastReturn.call = "step" =>
    LET a == ActivateCall(lastReturn.workflow, lastReturn.act.jobs,
                          lastReturn.sandbox)
    IN a.called =>
         /\ a.jobs # <<>>
         /\ \A i \in DOMAIN a.jobs : a.jobs[i] # "evict"
         /\ a.jobs = SelectSeq(lastReturn.act.jobs, LAMBDA j : j # "evict")

ActivateGetsNoEvictionWitness ==
  /\ lastReturn.call = "step"
  /\ lastReturn.act.jobs = <<"start", "evict">>
  /\ ActivateCall(lastReturn.workflow, lastReturn.act.jobs,
                  lastReturn.sandbox) = [called |-> TRUE, jobs |-> <<"start">>]
  /\ lastReturn.out.completion = "ok"
  /\ lastReturn.out.close

\* C39 as stated: a step disposes the handle of its group at most once.
DisposedAtMostOnce ==
  lastReturn.call = "step" => lastReturn.out.disposes <= 1

\* C40: consuming an id twice raises IllegalStateError the second time and
\* leaves the map as the first call left it.
ConsumeTwiceThrows ==
  \A map \in SUBSET Seqs, id \in Seqs :
    LET once == consumeCompletion(map, id)
        twice == consumeCompletion(once.completions, id)
    IN /\ twice.threw = "IllegalStateError"
       /\ twice.completions = once.completions

\* C40: a fireTimer or resolveActivity job that names a pending completion
\* removes exactly that entry and settles it; one that names an id that is
\* not pending, or not pending any more, raises IllegalStateError and leaves
\* the completions as they were.
ConsumedAtMostOnce ==
  [][/\ ConsumeTwiceThrows
     /\ (/\ lastJob'.job \in {"fireTimer", "resolveActivity"}
         /\ lastJob'.threw # "TypeError") =>
          IF lastJob'.id \in completions
            THEN /\ lastJob'.threw = "none"
                 /\ lastJob'.resolved = lastJob'.id
                 /\ completions' = completions \ {lastJob'.id}
            ELSE /\ lastJob'.threw = "IllegalStateError"
                 /\ lastJob'.resolved = NoId
                 /\ completions' = completions]_vars

ConsumedAtMostOnceWitness ==
  /\ lastJob.job = "fireTimer"
  /\ lastJob.id \in Seqs
  /\ lastJob.threw = "IllegalStateError"
  /\ lastJob.id \notin completions
  /\ completions # {}

\* C34 as stated: the file written for a module holds a stub for each of its
\* function-valued exports and for nothing else, the type of the stub of
\* export k is the JSON text of [specifier, k], and a start task that carries
\* the type of a stub resolves to that function of that module.
StubsOfFunctions ==
  \A file \in vol :
    /\ {stub.name : stub \in file.stubs} =
         {k \in ExportNames : activities.module[k] = "function"}
    /\ \A stub \in file.stubs :
         EvalStringLiteral(stub.literal) =
           [ok |-> TRUE, value |-> StringifyPair(activities.specifier, stub.name)]

StubRoundTrip ==
  /\ StubsOfFunctions
  /\ resolution # NoResolution =>
       /\ resolution.outcome = "function"
       /\ resolution.path = activities.specifier
       /\ \E file \in vol : \E stub \in file.stubs :
            /\ resolution.activityType = EvalStringLiteral(stub.literal).value
            /\ resolution.fnName = <<stub.name>>

\* C36 as stated: while the pipelines run, every activation counted in flight
\* is running in a step of its group or waiting for it, so that its step will
\* lower the gauge: the gauge equals the number of activations the groups hold.
RECURSIVE Queued(_)
Queued(runs) ==
  IF runs = {} THEN 0
  ELSE LET r == CHOOSE x \in runs : TRUE
       IN Len(wfGroups[r].queue) + Queued(runs \ {r})

NoActivationLost ==
  runStatus = "active" =>
    numInFlightActivations = Cardinality(wfSteps) + Queued(Runs)

\* C35 as stated: once shutdown() was called, and with the bridge, the
\* sandbox and the activities doing their part and the grace timer not
\* firing, the state becomes STOPPED and run() resolves, unless the worker
\* fails with an error meanwhile.
GracefulDrainCompletes ==
  (shutdownReq # "none") ~>
     \/ state = "STOPPED" /\ runStatus = "resolved"
     \/ runError # "none"

====
